---- MODULE Spec2Model ----
(***************************************************************************)
(* Resumable workflow state machine of the educational-content pipeline:   *)
(* GraphManager.process_step / delete_thread (core/core/graph_manager.py),  *)
(* the node handlers (core/nodes/*.py), the HITL registry                  *)
(* (core/services/hitl_manager.py) and the artifact URL bookkeeping.       *)
(*                                                                         *)
(* A process_step call is a sequence of steps: _prepare_workflow, the      *)
(* start of graph.astream (checkpoint load, input applied), one superstep  *)
(* per node handler (the handler, the checkpoint write and the artifact    *)
(* event handling of that superstep), and _finalize_workflow.              *)
(* Strings are modelled by tokens; a model (LLM) response, an external     *)
(* service outcome and a file-system outcome are nondeterministic inputs.  *)
(***************************************************************************)
EXTENDS Integers, Sequences, FiniteSets, Bags, TLC

VARIABLES
    checkpoints,      \* Postgres checkpointer: thread_id -> snapshot
    hitl_configs,     \* HITLManager._configs
    user_sessions,    \* GraphManager.user_sessions
    artifacts_data,   \* GraphManager.artifacts_data
    artifacts_configured, \* GraphManager.artifacts_manager is not None
    session_dir,      \* disk: the session directory of the thread's current run
    calls,            \* process_step calls in flight, by caller
    results,          \* last value returned by process_step, per thread
    ncalls,           \* number of process_step calls started so far
    last_op,          \* the operation that made the last step
    visits,           \* per thread: the visit of the step at the cursor
    current_stage,    \* QuestionGenerationNode._current_stage (shared node)
    node_task,        \* FeedbackNode.__call__ coroutines of the shared node
    get_node_name,    \* what self.get_node_name() of the shared node returns
    text_call,        \* a call of a text function: the function, its arguments
    text_result       \* what that call returned

vars == <<checkpoints, hitl_configs, user_sessions, artifacts_data,
          artifacts_configured, session_dir, calls, results, ncalls, last_op,
          visits, current_stage, node_task, get_node_name, text_call,
          text_result>>

workflow_vars == <<checkpoints, hitl_configs, user_sessions, artifacts_data,
                   artifacts_configured, session_dir, calls, results, ncalls,
                   last_op, visits>>

stage_vars == <<current_stage, node_task, get_node_name>>

text_vars == <<text_call, text_result>>

----------------------------------------------------------------------------
(* Bounds *)

MaxCalls == 2          \* process_step calls per behaviour
MaxQuestions == 2      \* length of a generated question list
MaxFeedback == 4       \* length of feedback_messages
MaxEdits == 2          \* edits applied to one document
MaxInvocations == 2    \* invocations of the shared question node per thread

----------------------------------------------------------------------------
(* Universe of inputs *)

Threads == {"t1", "t2"}
Callers == {"c1", "c2"}

\* Query / feedback texts: the empty text and a text of 60 characters
Texts == {"", "long text"}

\* len(text.strip())
TextLen(t) == IF t = "" THEN 0 ELSE 60

MIN_TEXT_LENGTH == 50

ImageInputs == {<<>>, <<"img">>}

\* A generated question list: n distinct questions, the i-th one being
\* question i
QuestionLists == {[i \in 1..n |-> i] : n \in 0..MaxQuestions}

NoArg == 0              \* a task that is not a Send

None == "<None>"
NoCheckpoint == [exists |-> FALSE]
NoConfig == [exists |-> FALSE]
NoCall == [pc |-> "idle"]
NoResume == [given |-> FALSE]
NoData == [exists |-> FALSE]
NoResult == [kind |-> "none"]
NoSession == <<"none", 0>>
NoMessage == <<>>       \* agent_message = None
NoVisit == [node |-> None, empty_entry |-> TRUE, susp |-> 0, decided |-> FALSE,
            streak |-> 0]

HITLNodes == {"edit_material", "generating_questions"}

ArtifactTypes == {"learning_material", "recognized_notes",
                  "synthesized_material", "questions", "answers"}

----------------------------------------------------------------------------
(* Small helpers on maps and records *)

MapPut(m, k, v) == [x \in (DOMAIN m) \cup {k} |-> IF x = k THEN v ELSE m[x]]

MapDel(m, ks) == [x \in (DOMAIN m) \ ks |-> m[x]]

EmptyMap == [x \in {} |-> None]

Has(upd, f) == f \in DOMAIN upd

\* dict.get(key, default) on a node's update
Get(upd, f, default) == IF f \in DOMAIN upd THEN upd[f] ELSE default

SeqToBag(s) == [x \in {s[i] : i \in DOMAIN s} |->
                   Cardinality({i \in DOMAIN s : s[i] = x})]

----------------------------------------------------------------------------
(* core/core/state.py: GeneralState with its field defaults *)

GeneralState(input_content, image_paths) ==
    [input_content |-> input_content,
     display_name |-> None,
     image_paths |-> image_paths,
     recognized_notes |-> "",
     synthesized_material |-> "",
     generated_material |-> "",
     questions |-> <<>>,
     questions_and_answers |-> <<>>,
     feedback_messages |-> <<>>,
     edit_count |-> 0,
     needs_user_input |-> TRUE,
     agent_message |-> NoMessage,
     last_action |-> None]

\* A node's update applied to the channels: every field is overwritten,
\* questions_and_answers is Annotated[List[str], operator.add].
ApplyUpdate(values, upd) ==
    [f \in DOMAIN values |->
        IF f \notin DOMAIN upd THEN values[f]
        ELSE IF f = "questions_and_answers" THEN values[f] \o upd[f]
        ELSE upd[f]]

Task(node, arg) == [node |-> node, arg |-> arg]

\* workflow.set_entry_point("input_processing")
EntryPoint == <<Task("input_processing", NoArg)>>

Snapshot(values, next, interrupts) ==
    [exists |-> TRUE, values |-> values, next |-> next,
     interrupts |-> interrupts]

\* the step whose suspension is pending in a checkpoint (state.interrupts)
PendingStep(cp) ==
    IF cp /= NoCheckpoint /\ cp.interrupts /= <<>>
    THEN cp.interrupts[1].node ELSE None

\* the run of a checkpoint reached the terminal marker (state.next == ())
Terminal(cp) == cp /= NoCheckpoint /\ cp.next = <<>>

\* messages
AIMessage(content) == [role |-> "ai", content |-> content]
HumanMessage(content) == [role |-> "human", content |-> content]
SystemMessage(content) == [role |-> "system", content |-> content]

----------------------------------------------------------------------------
(* core/models/hitl_config.py, core/services/hitl_manager.py *)

HITLConfig(em, gq) ==
    [exists |-> TRUE, edit_material |-> em, generating_questions |-> gq]

\* variant: question generation is not gated by default
DefaultWithoutQuestions == HITLConfig(TRUE, FALSE)

DefaultHITLConfig == HITLConfig(TRUE, TRUE)

\* HITLManager.get_config: creates the default config on first access
get_config(configs, t) ==
    IF configs[t] = NoConfig THEN [configs EXCEPT ![t] = DefaultHITLConfig]
    ELSE configs

\* HITLConfig.is_enabled_for_node: getattr(self, node_name, False)
is_enabled_for_node(config, node) ==
    IF node \in HITLNodes THEN config[node] ELSE FALSE

\* HITLManager.is_enabled (the value; the registry becomes get_config(..))
is_enabled(configs, node, t) == is_enabled_for_node(get_config(configs, t)[t], node)

----------------------------------------------------------------------------
(* Artifact URL bookkeeping of GraphManager *)

ArtifactsEntry(session_id, pending, sent) ==
    [exists |-> TRUE, session_id |-> session_id,
     pending_urls |-> pending, sent_urls |-> sent]

\* GraphManager._track_artifact_url
_track_artifact_url(ad, t, artifact_type, session_id, label) ==
    LET e == IF ad[t] = NoData THEN ArtifactsEntry(NoSession, EmptyMap, EmptyMap)
             ELSE ad[t]
    IN [ad EXCEPT ![t] = [e EXCEPT !.pending_urls =
            MapPut(e.pending_urls, artifact_type,
                   [session |-> session_id, label |-> label])]]

\* GraphManager._get_pending_urls: the artifact types announced in the
\* "Materials ready" message (empty set: no message)
_get_pending_urls(ad, t) ==
    IF ad[t] = NoData THEN {} ELSE DOMAIN ad[t].pending_urls

\* GraphManager._mark_urls_as_sent
_mark_urls_as_sent(ad, t, artifact_types) ==
    IF ad[t] = NoData THEN ad
    ELSE LET e == ad[t]
             moved == artifact_types \cap DOMAIN e.pending_urls
         IN [ad EXCEPT ![t] = [e EXCEPT
                !.sent_urls = [x \in (DOMAIN e.sent_urls) \cup moved |->
                                  IF x \in moved THEN e.pending_urls[x]
                                  ELSE e.sent_urls[x]],
                !.pending_urls = MapDel(e.pending_urls, moved)]]

\* self.artifacts_data.get(thread_id, {}).get("session_id")
SessionOf(ad, t) == IF ad[t] = NoData THEN NoSession ELSE ad[t].session_id

\* str(uuid.uuid4()) / "session-<timestamp>": identified by the call that
\* made them
UuidSession(n) == <<"uuid", n>>
RealSession(n) == <<"session-", n>>
IsRealSession(s) == s[1] = "session-"

----------------------------------------------------------------------------
(* GraphManager.process_step: _prepare_workflow *)

\* A thread has a process_step call in flight
InFlight(t) == \E c \in Callers : calls[c] /= NoCall /\ calls[c].thread = t

\* The caller contract of the data model: calls on one thread id are issued
\* one at a time (the code itself takes no lock, see NextUnserialised).
Serialised(t) == \A c \in Callers : calls[c] = NoCall

\* session bookkeeping of _prepare_workflow (lines 573-605): the session id
\* used for this call and the new user_sessions
PrepareSession(sessions, t, fresh, n) ==
    IF fresh \/ sessions[t] = NoSession
    THEN [sessions EXCEPT ![t] = UuidSession(n)]
    ELSE sessions

\* variant: the session id of the call always replaces the stored one
PrepareArtifactsOverwrites(ad, t, session_id) ==
    LET e == IF ad[t] = NoData
             THEN ArtifactsEntry(NoSession, EmptyMap, EmptyMap) ELSE ad[t]
    IN [ad EXCEPT ![t] = [e EXCEPT !.session_id = session_id]]

\* _prepare_workflow lines 649-658: artifacts_data gets the session id unless
\* it already holds a real ("session-...") one
PrepareArtifacts(ad, t, session_id) ==
    LET e == IF ad[t] = NoData
             THEN ArtifactsEntry(NoSession, EmptyMap, EmptyMap) ELSE ad[t]
    IN IF e.session_id /= NoSession /\ IsRealSession(e.session_id)
       THEN [ad EXCEPT ![t] = e]
       ELSE [ad EXCEPT ![t] = [e EXCEPT !.session_id = session_id]]

\* variant: every call starts a fresh run
AlwaysFreshRun(cp) == TRUE

\* variant: only a pending suspension is resumed
FreshUnlessSuspended(cp) == cp = NoCheckpoint \/ cp.interrupts = <<>>

\* "if not state.values": a thread without checkpoint starts a fresh run
IsFreshRun(cp) == cp = NoCheckpoint

NewCall(t, query, images, fresh, n) ==
    [pc |-> "stream", thread |-> t, query |-> query, images |-> images,
     fresh |-> fresh, began |-> fresh, n |-> n,
     values |-> GeneralState("", <<>>), next |-> <<>>, resume |-> NoResume,
     writes |-> <<>>, done |-> {}]

\* the operation a call follows: its kind and, for delete_thread, what the
\* deleted run had accumulated
Preceding(op) ==
    IF op.op = "delete_thread" THEN op ELSE [op |-> op.op, thread |-> op.thread]

PrepareWorkflow(c, t, query, images) ==
    /\ calls[c] = NoCall
    /\ ncalls < MaxCalls
    /\ LET fresh == IsFreshRun(checkpoints[t])
           n == ncalls + 1
           sessions2 == PrepareSession(user_sessions, t, fresh, n)
       IN /\ user_sessions' = sessions2
          /\ artifacts_data' = PrepareArtifacts(artifacts_data, t, sessions2[t])
          /\ calls' = [calls EXCEPT ![c] = NewCall(t, query, images, fresh, n)]
          /\ ncalls' = n
    /\ results' = [results EXCEPT ![t] = NoResult]
    /\ last_op' = [op |-> "prepare", thread |-> t, caller |-> c,
                   after |-> Preceding(last_op)]
    /\ UNCHANGED <<checkpoints, hitl_configs, artifacts_configured,
                   session_dir, visits>>

----------------------------------------------------------------------------
(* _run_workflow: graph.astream(input_state, cfg) starts *)

\* variant: the fresh state does not take the call's text
FreshInputWithoutText(query, images) == GeneralState("", images)

\* input_state of a fresh run: GeneralState(input_content=query,
\* image_paths=image_paths)
FreshInput(query, images) == GeneralState(query, images)

\* Command(resume=query, update={"image_paths": image_paths}) or
\* Command(resume=query) applied to the loaded checkpoint values
ResumeValues(values, images) ==
    IF images /= <<>> THEN [values EXCEPT !.image_paths = images] ELSE values

\* the call once astream has taken its input: query, image_paths and the
\* fresh/resume decision are consumed (began keeps whether the call began
\* the run)
Streaming(call, pc, values, next, resume) ==
    [call EXCEPT !.pc = pc, !.values = values, !.next = next,
                 !.resume = resume, !.query = "", !.images = <<>>,
                 !.fresh = FALSE]

StreamStart(c) ==
    /\ calls[c] /= NoCall
    /\ calls[c].pc = "stream"
    /\ LET call == calls[c]
           t == call.thread
           cp == checkpoints[t]
       IN IF call.fresh
          THEN LET v == FreshInput(call.query, call.images)
               IN /\ checkpoints' = [checkpoints EXCEPT
                                        ![t] = Snapshot(v, EntryPoint, <<>>)]
                  /\ calls' = [calls EXCEPT ![c] =
                        Streaming(call, "run", v, EntryPoint, NoResume)]
                  /\ visits' = [visits EXCEPT ![t] =
                        [node |-> "input_processing", empty_entry |-> TRUE,
                         susp |-> 0, decided |-> FALSE, streak |-> 0]]
                  /\ UNCHANGED results
          ELSE IF cp = NoCheckpoint
          THEN \* nothing to resume: astream raises
               /\ calls' = [calls EXCEPT ![c] = NoCall]
               /\ results' = [results EXCEPT ![t] =
                     [kind |-> "error", session_id |-> NoSession,
                      announced |-> {}, message |-> <<>>, step |-> None]]
               /\ UNCHANGED <<checkpoints, visits>>
          ELSE /\ calls' = [calls EXCEPT ![c] =
                     Streaming(call,
                               IF cp.next = <<>> THEN "finalize" ELSE "run",
                               ResumeValues(cp.values, call.images), cp.next,
                               [given |-> TRUE, value |-> call.query])]
               /\ UNCHANGED <<checkpoints, results, visits>>
    /\ last_op' = [op |-> "stream", thread |-> calls[c].thread, caller |-> c,
                   fresh |-> calls[c].fresh, query |-> calls[c].query,
                   images |-> calls[c].images,
                   pending |-> PendingStep(checkpoints[calls[c].thread]),
                   after |-> IF last_op.op = "prepare" THEN last_op.after
                             ELSE Preceding(last_op)]
    /\ UNCHANGED <<hitl_configs, user_sessions, artifacts_data,
                   artifacts_configured, session_dir, ncalls>>

----------------------------------------------------------------------------
(* GraphManager.delete_thread *)

\* variant: the checkpoint is kept
keep_checkpoint(cps, t) == cps

\* saver.adelete_thread(thread_id)
delete_checkpoint(cps, t) == [cps EXCEPT ![t] = NoCheckpoint]

\* variant: the bookkeeping of every thread id is dropped
delete_every_artifacts_data(ad, t) == [u \in Threads |-> NoData]

\* "if thread_id in self.artifacts_data: del self.artifacts_data[thread_id]"
delete_artifacts_data(ad, t) == [ad EXCEPT ![t] = NoData]

\* GraphManager.delete_session
delete_session(sessions, t) == [sessions EXCEPT ![t] = NoSession]

\* the HITL registry after delete_thread: the code does not touch it
delete_thread_hitl(configs, t) == configs

\* what delete_thread removed: the accumulated state of the deleted run
DeletedRun(cp) ==
    IF cp = NoCheckpoint
    THEN [deleted |-> FALSE, edit_count |-> 0, feedback |-> 0,
          material |-> FALSE]
    ELSE [deleted |-> TRUE, edit_count |-> cp.values.edit_count,
          feedback |-> Len(cp.values.feedback_messages),
          material |-> cp.values.synthesized_material /= ""]

\* delete_thread(t) called directly after a delete_thread(t)
Repeated(op, t) == op.op = "delete_thread" /\ op.thread = t

\* variant: the checkpoint survives delete_thread
DeleteThreadKeepsCheckpoint(t) ==
    /\ ~InFlight(t)
    /\ artifacts_data' = delete_artifacts_data(artifacts_data, t)
    /\ user_sessions' = delete_session(user_sessions, t)
    /\ session_dir' = [session_dir EXCEPT ![t] = NoSession]
    /\ results' = [results EXCEPT ![t] = NoResult]
    /\ last_op' = [op |-> "delete_thread", thread |-> t, caller |-> None,
                    again |-> Repeated(last_op, t)]
                     @@ DeletedRun(checkpoints[t])
    /\ UNCHANGED <<checkpoints, hitl_configs, visits, artifacts_configured,
                   calls, ncalls>>

DeleteThread(t) ==
    /\ ~InFlight(t)
    /\ checkpoints' = delete_checkpoint(checkpoints, t)
    /\ artifacts_data' = delete_artifacts_data(artifacts_data, t)
    /\ user_sessions' = delete_session(user_sessions, t)
    /\ hitl_configs' = delete_thread_hitl(hitl_configs, t)
    /\ results' = [results EXCEPT ![t] = NoResult]
    /\ visits' = [visits EXCEPT ![t] = NoVisit]
    /\ session_dir' = [session_dir EXCEPT ![t] = NoSession]
    /\ last_op' = [op |-> "delete_thread", thread |-> t, caller |-> None,
                    again |-> Repeated(last_op, t)]
                     @@ DeletedRun(checkpoints[t])
    /\ UNCHANGED <<artifacts_configured, calls, ncalls>>

----------------------------------------------------------------------------
(* _finalize_workflow *)

DoneMessage == <<"Done">>

\* the result of _finalize_workflow for the final state read from the store
FinalResult(cp, ad, t) ==
    IF cp /= NoCheckpoint /\ cp.interrupts /= <<>>
    THEN [kind |-> "suspended", session_id |-> SessionOf(ad, t),
          announced |-> _get_pending_urls(ad, t),
          message |-> cp.interrupts[1].message,
          step |-> cp.interrupts[1].node]
    ELSE [kind |-> "completed", session_id |-> SessionOf(ad, t),
          announced |-> {}, message |-> DoneMessage, step |-> None]

FinalizeWorkflow(c) ==
    /\ calls[c] /= NoCall
    /\ calls[c].pc = "finalize"
    /\ LET t == calls[c].thread
           res == FinalResult(checkpoints[t], artifacts_data, t)
       IN /\ results' = [results EXCEPT ![t] = res]
          /\ IF res.kind = "suspended"
             THEN /\ artifacts_data' = _mark_urls_as_sent(artifacts_data, t,
                                          _get_pending_urls(artifacts_data, t))
                  /\ UNCHANGED <<checkpoints, user_sessions, hitl_configs,
                                 session_dir, visits>>
             ELSE /\ visits' = [visits EXCEPT ![t] = NoVisit]
                  /\ session_dir' = [session_dir EXCEPT ![t] = NoSession]
                  /\ checkpoints' = delete_checkpoint(checkpoints, t)
                  /\ artifacts_data' = delete_artifacts_data(artifacts_data, t)
                  /\ user_sessions' = delete_session(user_sessions, t)
                  /\ hitl_configs' = delete_thread_hitl(hitl_configs, t)
          /\ last_op' = [op |-> "finalize", thread |-> t, caller |-> c,
                         terminal |-> Terminal(checkpoints[t]),
                         pending |-> PendingStep(checkpoints[t]),
                         unsent |-> _get_pending_urls(artifacts_data, t),
                         session_id |-> SessionOf(artifacts_data, t),
                         session_dir |-> session_dir[t],
                         began |-> calls[c].began]
    /\ calls' = [calls EXCEPT ![c] = NoCall]
    /\ UNCHANGED <<artifacts_configured, ncalls>>

----------------------------------------------------------------------------
(* Node handlers: (state, context) -> Command | interrupt | raise.          *)
(* A handler is given the outcomes of its external calls as arguments.     *)

EmptyUpdate == [x \in {} |-> None]

Command(goto, update, model_calls) ==
    [kind |-> "command", goto |-> goto, update |-> update,
     message |-> <<>>, model_calls |-> model_calls]

\* langgraph interrupt() without a resume value: the run is suspended
Interrupt(message, model_calls) ==
    [kind |-> "interrupt", goto |-> <<>>, update |-> EmptyUpdate,
     message |-> message, model_calls |-> model_calls]

\* an exception leaves the handler (WorkflowExecutionError, ValueError, ...)
Raise(model_calls) ==
    [kind |-> "raise", goto |-> <<>>, update |-> EmptyUpdate,
     message |-> <<>>, model_calls |-> model_calls]

GotoNode(node) == <<Task(node, NoArg)>>

\* [Send("answer_question", {"question": q, ...}) for q in questions]
SendAnswers(questions) ==
    [i \in 1..Len(questions) |-> Task("answer_question", questions[i])]

\* core/nodes/input_processing.py: InputProcessingNode.__call__
InputProcessingNode(state, validated_image_paths, display_name) ==
    Command(GotoNode("generating_content"),
            [input_content |-> state.input_content,
             image_paths |-> validated_image_paths,
             display_name |-> display_name],
            <<"display_name">>)

\* core/nodes/content.py: ContentGenerationNode.__call__
ContentGenerationNode(state, prompt_ok, content) ==
    IF ~prompt_ok THEN Raise(<<>>)
    ELSE Command(GotoNode("recognition_handwritten"),
                 [generated_material |-> content], <<"content">>)

NotesRequest == <<"notes_request">>

\* RecognitionNode._process_images: any exception, the prompt service's
\* included, is logged and the empty text returned
_process_images(prompt_ok, content) == IF ~prompt_ok THEN "" ELSE content

\* variant: without notes the run goes on to edit_material
RecognitionSkipsToEdit(state, resume, recognized_text) ==
    LET skip == Command(GotoNode("edit_material"),
                        [recognized_notes |-> "",
                         synthesized_material |-> state.generated_material],
                        <<>>)
    IN IF state.image_paths /= <<>>
       THEN IF recognized_text /= ""
            THEN Command(GotoNode("synthesis_material"),
                         [recognized_notes |-> recognized_text],
                         <<"recognition">>)
            ELSE skip
       ELSE IF ~resume.given
       THEN Interrupt(<< NotesRequest >>, <<>>)
       ELSE IF TextLen(resume.value) < MIN_TEXT_LENGTH
       THEN skip
       ELSE Command(GotoNode("synthesis_material"),
                    [recognized_notes |-> resume.value], <<>>)

\* core/nodes/recognition.py: RecognitionNode.__call__
RecognitionNode(state, resume, recognized_text) ==
    LET skip == Command(GotoNode("generating_questions"),
                        [recognized_notes |-> "",
                         synthesized_material |-> state.generated_material],
                        <<>>)
    IN IF state.image_paths /= <<>>
       THEN IF recognized_text /= ""
            THEN Command(GotoNode("synthesis_material"),
                         [recognized_notes |-> recognized_text],
                         <<"recognition">>)
            ELSE skip
       ELSE IF ~resume.given
       THEN Interrupt(<< NotesRequest >>, <<>>)
       ELSE IF TextLen(resume.value) < MIN_TEXT_LENGTH
       THEN skip
       ELSE Command(GotoNode("synthesis_material"),
                    [recognized_notes |-> resume.value], <<>>)

\* core/nodes/synthesis.py: SynthesisNode.__call__
SynthesisNode(state, prompt_ok, content) ==
    IF state.synthesized_material /= ""
    THEN Command(GotoNode("edit_material"), EmptyUpdate, <<>>)
    ELSE IF state.generated_material = ""
    THEN Raise(<<>>)
    ELSE IF state.recognized_notes /= ""
    THEN IF ~prompt_ok THEN Raise(<<>>)
         ELSE Command(GotoNode("edit_material"),
                      [synthesized_material |-> content], <<"synthesis">>)
    ELSE Command(GotoNode("edit_material"),
                 [synthesized_material |-> state.generated_material], <<>>)

----------------------------------------------------------------------------
(* core/nodes/edit_material.py: EditMaterialNode *)

DefaultEditPrompt == <<"Which changes to make to the material?">>
EditErrorMsg == <<"Could not find the specified text fragment.">>
EditAppliedMsg == <<"Edit applied. What other changes are needed?">>

\* variant: a target that is not found drops the feedback history
EditErrorDropsHistory(state, found, new_document, continue_editing, messages) ==
    IF ~found
    THEN Command(GotoNode("edit_material"),
                 [feedback_messages |-> <<SystemMessage(<<"EDIT ERROR">>)>>,
                  needs_user_input |-> TRUE,
                  agent_message |-> EditErrorMsg,
                  last_action |-> "edit_error"],
                 <<"ActionDecision", "EditDetails">>)
    ELSE Command(GotoNode("edit_material"),
                 [synthesized_material |-> new_document,
                  feedback_messages |->
                      Append(messages, SystemMessage(<<"EDIT SUCCESS">>)),
                  edit_count |-> state.edit_count + 1,
                  needs_user_input |-> TRUE,
                  agent_message |-> EditAppliedMsg,
                  last_action |-> "edit"],
                 <<"ActionDecision", "EditDetails">>)

\* variant: an applied edit is not counted
EditNotCounted(state, found, new_document, continue_editing, messages) ==
    IF ~found
    THEN Command(GotoNode("edit_material"),
                 [feedback_messages |->
                      Append(messages, SystemMessage(<<"EDIT ERROR">>)),
                  needs_user_input |-> TRUE,
                  agent_message |-> EditErrorMsg,
                  last_action |-> "edit_error"],
                 <<"ActionDecision", "EditDetails">>)
    ELSE Command(GotoNode("edit_material"),
                 [synthesized_material |-> new_document,
                  feedback_messages |->
                      Append(messages, SystemMessage(<<"EDIT SUCCESS">>)),
                  needs_user_input |-> TRUE,
                  agent_message |-> EditAppliedMsg,
                  last_action |-> "edit"],
                 <<"ActionDecision", "EditDetails">>)

\* handle_edit_action; found / new_document are the result of
\* fuzzy_find_and_replace on the document
handle_edit_action(state, found, new_document, continue_editing, messages) ==
    IF ~found
    THEN Command(GotoNode("edit_material"),
                 [feedback_messages |->
                      Append(messages, SystemMessage(<<"EDIT ERROR">>)),
                  needs_user_input |-> TRUE,
                  agent_message |-> EditErrorMsg,
                  last_action |-> "edit_error"],
                 <<"ActionDecision", "EditDetails">>)
    ELSE LET upd == [synthesized_material |-> new_document,
                     feedback_messages |->
                         Append(messages, SystemMessage(<<"EDIT SUCCESS">>)),
                     edit_count |-> state.edit_count + 1,
                     needs_user_input |-> ~continue_editing,
                     last_action |-> "edit"]
         IN Command(GotoNode("edit_material"),
                    IF ~continue_editing
                    THEN upd @@ [agent_message |-> EditAppliedMsg]
                    ELSE upd,
                    <<"ActionDecision", "EditDetails">>)

handle_message_action(state, content, messages) ==
    Command(GotoNode("edit_material"),
            [feedback_messages |-> Append(messages, AIMessage(content)),
             needs_user_input |-> TRUE,
             agent_message |-> content,
             last_action |-> "message"],
            <<"ActionDecision", "EditMessageDetails">>)

handle_complete_action(state) ==
    Command(GotoNode("generating_questions"),
            [needs_user_input |-> TRUE,
             agent_message |-> NoMessage,
             last_action |-> "complete",
             feedback_messages |-> <<>>],
            <<"ActionDecision">>)

\* lines 406-506: the model decides the action and it is executed
EditDecision(state, messages, prompt_ok, llm) ==
    IF ~prompt_ok THEN Raise(<<>>)
    ELSE LET msgs2 == Append(messages, AIMessage(<<llm.action_type>>))
         IN CASE llm.action_type = "edit" ->
                   handle_edit_action(state, llm.found, llm.new_document,
                                      llm.continue_editing, msgs2)
              [] llm.action_type = "message" ->
                   handle_message_action(state, <<"agent question">>, msgs2)
              [] llm.action_type = "complete" ->
                   handle_complete_action(state)

\* variant: the HITL setting is not consulted
EditMaterialIgnoresHitl(state, hitl_enabled, resume, prompt_ok, llm) ==
    IF state.synthesized_material = ""
    THEN Command(GotoNode("generating_questions"),
                 [agent_message |-> <<"No material to edit">>], <<>>)
    ELSE IF state.needs_user_input /\ ~resume.given
    THEN Interrupt(<< DefaultEditPrompt >>, <<>>)
    ELSE EditDecision(state, state.feedback_messages, prompt_ok, llm)

\* variant: the decision is made without asking the user first
EditMaterialNeverAsks(state, hitl_enabled, resume, prompt_ok, llm) ==
    IF state.synthesized_material = ""
    THEN Command(GotoNode("generating_questions"),
                 [agent_message |-> <<"No material to edit">>], <<>>)
    ELSE IF ~hitl_enabled
    THEN Command(GotoNode("generating_questions"),
                 [agent_message |-> <<"Material accepted without editing">>,
                  last_action |-> "skip_hitl"], <<>>)
    ELSE EditDecision(state, state.feedback_messages, prompt_ok, llm)

\* EditMaterialNode.__call__
EditMaterialNode(state, hitl_enabled, resume, prompt_ok, llm) ==
    LET messages == state.feedback_messages
    IN IF state.synthesized_material = ""
       THEN Command(GotoNode("generating_questions"),
                    [agent_message |-> <<"No material to edit">>], <<>>)
       ELSE IF ~hitl_enabled
       THEN Command(GotoNode("generating_questions"),
                    [agent_message |-> <<"Material accepted without editing">>,
                     last_action |-> "skip_hitl"], <<>>)
       ELSE IF state.needs_user_input
       THEN IF ~resume.given
            THEN Interrupt(<< IF state.agent_message /= NoMessage
                              THEN state.agent_message
                              ELSE DefaultEditPrompt >>, <<>>)
            ELSE IF resume.value /= ""
            THEN Command(GotoNode("edit_material"),
                         [feedback_messages |->
                              Append(messages, HumanMessage(<<resume.value>>)),
                          agent_message |-> NoMessage,
                          needs_user_input |-> FALSE], <<>>)
            ELSE EditDecision(state, messages, prompt_ok, llm)
       ELSE EditDecision(state, messages, prompt_ok, llm)

----------------------------------------------------------------------------
(* core/nodes/base.py: FeedbackNode, core/nodes/questions.py:               *)
(* QuestionGenerationNode                                                  *)

UserPrompt == <<"Evaluate the proposed questions.">>
AutonomousMsg == <<"Questions generated automatically (autonomous mode)">>

\* QuestionGenerationNode.is_initial
is_initial(state) == state.feedback_messages = <<>>

\* the stage get_prompt_kwargs leaves in self._current_stage
get_prompt_kwargs_stage(user_feedback_given) ==
    IF user_feedback_given THEN "refine" ELSE "initial"

\* QuestionGenerationNode.get_model: the structured-output schema
get_model(stage) == IF stage = "refine" THEN "QuestionsHITL" ELSE "Questions"

\* QuestionGenerationNode.format_initial_response: the numbered list
format_initial_response(questions) == questions

\* QuestionGenerationNode.get_initial_update
get_initial_update(questions) ==
    [questions |-> questions,
     feedback_messages |-> <<AIMessage(format_initial_response(questions))>>]

\* variant: the revision replaces the history
ContinueDropsHistory(state, user_feedback, questions) ==
    [questions |-> questions,
     feedback_messages |->
         <<HumanMessage(<<user_feedback>>),
           AIMessage(format_initial_response(questions))>>]

\* QuestionGenerationNode.get_continue_update
get_continue_update(state, user_feedback, questions) ==
    [questions |-> questions,
     feedback_messages |-> state.feedback_messages \o
         <<HumanMessage(<<user_feedback>>),
           AIMessage(format_initial_response(questions))>>]

\* QuestionGenerationNode.get_update_on_approve
get_update_on_approve(state, questions) ==
    [questions |-> questions, feedback_messages |-> <<>>]

\* QuestionGenerationNode.get_next_node
get_next_node(state, approved) ==
    IF approved THEN SendAnswers(state.questions)
    ELSE GotoNode("generating_questions")

\* FeedbackNode.__call__, step 2: the messages shown at the suspension
messages_for_user(state) ==
    LET last == state.feedback_messages[Len(state.feedback_messages)].content
    IN IF Len(state.feedback_messages) = 1
       THEN <<last, UserPrompt>> ELSE <<last>>

\* FeedbackNode.__call__ steps 3-4 with the response of the model returned
\* by get_model(); response = [next_step, questions]
FeedbackRevision(state, user_feedback, model, response) ==
    IF model /= "QuestionsHITL"
    THEN \* is_approved reads response.next_step of a Questions object
         Raise(<<model>>)
    ELSE IF response.next_step = "finalize"
    THEN Command(get_next_node(state, TRUE),
                 get_update_on_approve(state, response.questions),
                 <<model>>)
    ELSE Command(GotoNode("generating_questions"),
                 get_continue_update(state, user_feedback, response.questions),
                 <<model>>)

\* FeedbackNode.__call__ as one uninterrupted execution
FeedbackNode(state, resume, prompt_ok, response) ==
    IF is_initial(state)
    THEN IF ~prompt_ok THEN Raise(<<>>)
         ELSE Command(GotoNode("generating_questions"),
                      get_initial_update(response.questions),
                      <<get_model(get_prompt_kwargs_stage(FALSE))>>)
    ELSE IF ~resume.given
    THEN Interrupt(messages_for_user(state), <<>>)
    ELSE IF ~prompt_ok THEN Raise(<<>>)
    ELSE FeedbackRevision(state, resume.value,
                          get_model(get_prompt_kwargs_stage(TRUE)), response)

\* the value of self._current_stage after FeedbackNode.__call__ / the
\* autonomous branch ran on the given state
StageAfter(stage, state, hitl_enabled, resume) ==
    IF ~hitl_enabled \/ is_initial(state) THEN "initial"
    ELSE IF ~resume.given THEN stage
    ELSE "refine"

\* variant: the HITL setting is not consulted
QuestionsIgnoreHitl(state, hitl_enabled, resume, prompt_ok, response) ==
    FeedbackNode(state, resume, prompt_ok, response)

\* QuestionGenerationNode.__call__
QuestionGenerationNode(state, hitl_enabled, resume, prompt_ok, response) ==
    IF ~hitl_enabled
    THEN IF ~prompt_ok THEN Raise(<<>>)
         ELSE Command(SendAnswers(response.questions),
                      [questions |-> response.questions,
                       feedback_messages |-> <<>>,
                       agent_message |-> AutonomousMsg],
                      <<"Questions">>)
    ELSE FeedbackNode(state, resume, prompt_ok, response)

----------------------------------------------------------------------------
(* core/nodes/answers.py: AnswerGenerationNode.__call__ *)

\* formatted_qna / error_qna of one child
AnswerEntry(question, ok) ==
    [question |-> question, kind |-> IF ok THEN "answer" ELSE "error"]

\* variant: a failed generation contributes no entry
AnswerDropsFailure(question, ok) ==
    Command(<<>>,
            [questions_and_answers |->
                 IF ok THEN <<AnswerEntry(question, ok)>> ELSE <<>>],
            <<>>)

AnswerGenerationNode(question, ok) ==
    Command(<<>>, [questions_and_answers |-> <<AnswerEntry(question, ok)>>],
            IF ok THEN <<"answer">> ELSE <<>>)

----------------------------------------------------------------------------
(* _handle_workflow_event / _process_node_artifacts: NODE_ARTIFACT_CONFIG  *)
(* conditions and the _save_* handlers; ok is the outcome of the push.     *)

\* _save_learning_material
_save_learning_material(ad, configured, t, ok, n) ==
    IF ~configured \/ ~ok THEN ad
    ELSE LET e == IF ad[t] = NoData
                  THEN ArtifactsEntry(RealSession(n), EmptyMap, EmptyMap)
                  ELSE [ad[t] EXCEPT !.session_id = RealSession(n)]
         IN _track_artifact_url([ad EXCEPT ![t] = e], t, "learning_material",
                                RealSession(n), "Generated material")

\* _save_recognized_notes, _save_questions, _save_answers and
\* _save_synthesized_material after their own emptiness checks: the URL is
\* tracked under the session id of the bookkeeping
_save_in_session(ad, configured, t, artifact_type, label) ==
    IF ~configured \/ SessionOf(ad, t) = NoSession THEN ad
    ELSE _track_artifact_url(ad, t, artifact_type, SessionOf(ad, t), label)

ProcessNodeArtifacts(ad, configured, t, node, node_data, state_values, ok, n) ==
    CASE node = "generating_content"
           /\ Get(node_data, "generated_material", "") /= "" ->
             _save_learning_material(ad, configured, t, ok, n)
      [] node = "recognition_handwritten"
           /\ Get(node_data, "recognized_notes", "") /= "" ->
             _save_in_session(ad, configured, t, "recognized_notes",
                              "Recognized notes")
      [] node = "synthesis_material"
           /\ Get(node_data, "synthesized_material", "") /= "" ->
             _save_in_session(ad, configured, t, "synthesized_material",
                              "Concatenation")
      [] node = "edit_material"
           /\ Get(node_data, "last_action", None) = "edit" ->
             IF state_values.synthesized_material = "" THEN ad
             ELSE _save_in_session(ad, configured, t, "synthesized_material",
                                   "Edited material")
      [] node = "generating_questions"
           /\ Get(node_data, "questions", <<>>) /= <<>> ->
             _save_in_session(ad, configured, t, "questions",
                              "Assessment questions")
      [] node = "answer_question"
           /\ Get(node_data, "questions_and_answers", <<>>) /= <<>> ->
             IF state_values.questions_and_answers = <<>> THEN ad
             ELSE _save_in_session(ad, configured, t, "answers",
                                   "Questions with answers")
      [] OTHER -> ad

\* the event reaches a push_* call of the artifacts manager
Pushes(ad, configured, t, node, node_data, state_values) ==
    /\ configured
    /\ CASE node = "generating_content" ->
               Get(node_data, "generated_material", "") /= ""
          [] node = "recognition_handwritten" ->
               /\ Get(node_data, "recognized_notes", "") /= ""
               /\ SessionOf(ad, t) /= NoSession
          [] node = "synthesis_material" ->
               /\ Get(node_data, "synthesized_material", "") /= ""
               /\ SessionOf(ad, t) /= NoSession
          [] node = "edit_material" ->
               /\ Get(node_data, "last_action", None) = "edit"
               /\ SessionOf(ad, t) /= NoSession
               /\ state_values.synthesized_material /= ""
          [] node = "generating_questions" ->
               /\ Get(node_data, "questions", <<>>) /= <<>>
               /\ SessionOf(ad, t) /= NoSession
          [] node = "answer_question" ->
               /\ Get(node_data, "questions_and_answers", <<>>) /= <<>>
               /\ SessionOf(ad, t) /= NoSession
               /\ state_values.questions_and_answers /= <<>>
          [] OTHER -> FALSE

\* push_learning_material creates the session directory of the run
SessionDirAfter(dirs, t, node, pushes, ok, n) ==
    IF pushes /\ ok /\ node = "generating_content"
    THEN [dirs EXCEPT ![t] = RealSession(n)]
    ELSE dirs

\* variant: a failed push aborts the step
ArtifactFailureAborts(cmd, pushes, ok) ==
    IF pushes /\ ~ok THEN Raise(cmd.model_calls) ELSE cmd

\* the superstep's outcome once its event has been handled: every push_*
\* catches its exceptions and returns success = False, the _save_* handlers
\* log the failure, and the handler's command stands
AfterArtifacts(cmd, pushes, ok) == cmd

\* the handler, run on this state, asks the prompt service for its prompt
RendersPrompt(node, state, hitl, resume) ==
    CASE node = "generating_content" -> TRUE
      [] node = "recognition_handwritten" -> state.image_paths /= <<>>
      [] node = "synthesis_material" ->
           /\ state.synthesized_material = ""
           /\ state.generated_material /= ""
           /\ state.recognized_notes /= ""
      [] node = "edit_material" ->
           /\ state.synthesized_material /= ""
           /\ hitl
           /\ (state.needs_user_input => (resume.given /\ resume.value = ""))
      [] node = "generating_questions" ->
           ~hitl \/ state.feedback_messages = <<>> \/ resume.given
      [] node = "answer_question" -> TRUE
      [] OTHER -> FALSE

----------------------------------------------------------------------------
(* One superstep of graph.astream: the handler at the cursor runs, its     *)
(* update is applied and checkpointed, the "updates" event is handled.     *)

\* an outcome is drawn only where the handler asks for it
Outcomes(asked, outcomes, unasked) == IF asked THEN outcomes ELSE {unasked}

NodeReady(c, node) ==
    /\ calls[c] /= NoCall
    /\ calls[c].pc = "run"
    /\ calls[c].next /= <<>>
    /\ calls[c].next[1].node = node

ErrorResult ==
    [kind |-> "error", session_id |-> NoSession, announced |-> {},
     message |-> <<>>, step |-> None]

DecisionCalls == {"ActionDecision", "QuestionsHITL"}

MadeDecision(cmd) ==
    \E i \in DOMAIN cmd.model_calls : cmd.model_calls[i] \in DecisionCalls

\* bookkeeping of the current visit of a step by a thread: whether it was
\* entered with empty feedback history, the suspensions issued before the
\* first decision call of the visit, the model-driven actions taken in a row
\* since the step was entered or last suspended
VisitAfter(v, node, cmd, values2) ==
    IF cmd.kind = "interrupt"
    THEN [v EXCEPT !.susp = IF v.decided THEN @ ELSE @ + 1, !.streak = 0]
    ELSE IF cmd.kind = "raise"
    THEN [v EXCEPT !.decided = @ \/ MadeDecision(cmd)]
    ELSE IF cmd.goto /= <<>> /\ cmd.goto[1].node = node
    THEN [v EXCEPT !.decided = @ \/ MadeDecision(cmd),
                   !.streak = IF MadeDecision(cmd) THEN @ + 1 ELSE @]
    ELSE [node |-> IF cmd.goto = <<>> THEN None ELSE cmd.goto[1].node,
          empty_entry |-> values2.feedback_messages = <<>>,
          susp |-> 0, decided |-> FALSE, streak |-> 0]

\* what the last superstep did: the handler's outcome, the HITL flag it
\* read, whether it made the first decision call of the visit
StepOp(node, t, c, cmd, hitl, visit, prompt_failed, pushes, ok) ==
    [op |-> node, thread |-> t, caller |-> c, kind |-> cmd.kind,
     goto |-> cmd.goto, model_calls |-> cmd.model_calls, hitl |-> hitl,
     update |-> cmd.update, prompt_failed |-> prompt_failed,
     pushes |-> pushes, persist_failed |-> pushes /\ ~ok,
     resume |-> calls[c].resume, pending |-> PendingStep(checkpoints[t]),
     tasks |-> calls[c].next,
     first_decision |-> MadeDecision(cmd) /\ ~visit.decided,
     empty_entry |-> visit.empty_entry, susp |-> visit.susp,
     unseen |-> hitl_configs[t] = NoConfig, began |-> calls[c].began]

ApplyCommand(c, node, handler_cmd, hitl, hc, prompt_failed) ==
    LET call == calls[c]
        t == call.thread
        values2 == ApplyUpdate(call.values, handler_cmd.update)
        pushes == /\ handler_cmd.kind = "command"
                  /\ Pushes(artifacts_data, artifacts_configured, t, node,
                            handler_cmd.update, values2)
    IN \E ok \in Outcomes(pushes, BOOLEAN, TRUE) :
       LET cmd == AfterArtifacts(handler_cmd, pushes, ok)
       IN
       /\ CASE cmd.kind = "command" ->
                /\ checkpoints' = [checkpoints EXCEPT
                                      ![t] = Snapshot(values2, cmd.goto, <<>>)]
                /\ calls' = [calls EXCEPT ![c] = [call EXCEPT
                      !.values = values2, !.next = cmd.goto,
                      !.resume = NoResume,
                      !.pc = IF cmd.goto = <<>> THEN "finalize" ELSE "run"]]
                /\ artifacts_data' = ProcessNodeArtifacts(artifacts_data,
                      artifacts_configured, t, node, cmd.update, values2, ok,
                      call.n)
                /\ session_dir' = SessionDirAfter(session_dir, t, node,
                                                  pushes, ok, call.n)
                /\ UNCHANGED results
            [] cmd.kind = "interrupt" ->
                /\ checkpoints' = [checkpoints EXCEPT ![t] =
                      Snapshot(call.values, call.next,
                               <<[node |-> node, message |-> cmd.message]>>)]
                /\ calls' = [calls EXCEPT ![c] = [call EXCEPT
                      !.pc = "finalize"]]
                /\ UNCHANGED <<artifacts_data, session_dir, results>>
            [] cmd.kind = "raise" ->
                /\ calls' = [calls EXCEPT ![c] = NoCall]
                /\ results' = [results EXCEPT ![t] = ErrorResult]
                /\ UNCHANGED <<checkpoints, artifacts_data, session_dir>>
       /\ visits' = [visits EXCEPT ![t] = VisitAfter(@, node, cmd, values2)]
       /\ hitl_configs' = hc
       /\ last_op' = StepOp(node, t, c, cmd, hitl, visits[t], prompt_failed,
                            pushes, ok)
       /\ UNCHANGED <<user_sessions, artifacts_configured, ncalls>>

----------------------------------------------------------------------------
(* The supersteps, one action per node *)

InputProcessing(c) ==
    /\ NodeReady(c, "input_processing")
    /\ \E valid \in BOOLEAN :
         LET st == calls[c].values
         IN ApplyCommand(c, "input_processing",
               InputProcessingNode(st,
                   IF valid THEN st.image_paths ELSE <<>>, "name"),
               FALSE, hitl_configs, FALSE)
    /\ UNCHANGED <<stage_vars, text_vars>>

GeneratingContent(c) ==
    /\ NodeReady(c, "generating_content")
    /\ \E prompt_ok \in BOOLEAN :
       \E content \in Outcomes(prompt_ok, {"", "material"}, "") :
         ApplyCommand(c, "generating_content",
             ContentGenerationNode(calls[c].values, prompt_ok, content),
             FALSE, hitl_configs, ~prompt_ok)
    /\ UNCHANGED <<stage_vars, text_vars>>

RecognitionHandwritten(c) ==
    /\ NodeReady(c, "recognition_handwritten")
    /\ LET st == calls[c].values
           asked == RendersPrompt("recognition_handwritten", st, FALSE,
                                  calls[c].resume)
       IN \E prompt_ok \in Outcomes(asked, BOOLEAN, TRUE) :
          \E content \in Outcomes(asked /\ prompt_ok,
                                   {"", "recognized"}, "") :
            ApplyCommand(c, "recognition_handwritten",
                RecognitionNode(st, calls[c].resume,
                                _process_images(prompt_ok, content)),
                FALSE, hitl_configs, ~prompt_ok)
    /\ UNCHANGED <<stage_vars, text_vars>>

SynthesisMaterial(c) ==
    /\ NodeReady(c, "synthesis_material")
    /\ LET st == calls[c].values
           asked == RendersPrompt("synthesis_material", st, FALSE,
                                  calls[c].resume)
       IN \E prompt_ok \in Outcomes(asked, BOOLEAN, TRUE) :
          \E content \in Outcomes(asked /\ prompt_ok,
                                   {"", "synthesis"}, "") :
            ApplyCommand(c, "synthesis_material",
                SynthesisNode(st, prompt_ok, content),
                FALSE, hitl_configs, ~prompt_ok)
    /\ UNCHANGED <<stage_vars, text_vars>>

\* the responses of the edit model, within the bounds of the model
EditResponses(state) ==
    LET room == Len(state.feedback_messages) + 2 <= MaxFeedback
    IN {[action_type |-> "complete", found |-> FALSE,
         new_document |-> "", continue_editing |-> FALSE]}
       \cup (IF room
             THEN {[action_type |-> "message", found |-> FALSE,
                    new_document |-> "", continue_editing |-> FALSE]}
             ELSE {})
       \cup (IF room
             THEN {[action_type |-> "edit", found |-> FALSE,
                    new_document |-> "", continue_editing |-> FALSE]}
             ELSE {})
       \cup (IF room /\ state.edit_count < MaxEdits
             THEN [action_type : {"edit"}, found : {TRUE},
                   new_document : {"edited", ""},
                   continue_editing : BOOLEAN]
             ELSE {})

EditMaterial(c) ==
    /\ NodeReady(c, "edit_material")
    /\ LET t == calls[c].thread
           st == calls[c].values
           hitl == is_enabled(hitl_configs, "edit_material", t)
           asked == RendersPrompt("edit_material", st, hitl, calls[c].resume)
       IN \E prompt_ok \in Outcomes(asked, BOOLEAN, TRUE) :
          \E llm \in Outcomes(asked /\ prompt_ok, EditResponses(st),
                              CHOOSE r \in EditResponses(st) : TRUE) :
            ApplyCommand(c, "edit_material",
                EditMaterialNode(st, hitl, calls[c].resume, prompt_ok, llm),
                hitl, get_config(hitl_configs, t), ~prompt_ok)
    /\ UNCHANGED <<stage_vars, text_vars>>

\* the responses of the question model, within the bounds of the model
QuestionResponses(state) ==
    [next_step : IF Len(state.feedback_messages) + 2 <= MaxFeedback
                 THEN {"clarify", "finalize"} ELSE {"finalize"},
     questions : QuestionLists]

GeneratingQuestions(c) ==
    /\ NodeReady(c, "generating_questions")
    /\ LET t == calls[c].thread
           st == calls[c].values
           hitl == is_enabled(hitl_configs, "generating_questions", t)
           asked == RendersPrompt("generating_questions", st, hitl,
                                  calls[c].resume)
       IN /\ \E prompt_ok \in Outcomes(asked, BOOLEAN, TRUE) :
             \E response \in Outcomes(asked /\ prompt_ok,
                                      QuestionResponses(st),
                                      CHOOSE r \in QuestionResponses(st) : TRUE) :
               ApplyCommand(c, "generating_questions",
                   QuestionGenerationNode(st, hitl, calls[c].resume,
                                          prompt_ok, response),
                   hitl, get_config(hitl_configs, t), ~prompt_ok)
          /\ current_stage' = StageAfter(current_stage, st, hitl,
                                         calls[c].resume)
    /\ UNCHANGED <<node_task, get_node_name, text_vars>>

\* One child of the fan-out finishes; the superstep ends with the last one:
\* the writes of all children are applied with operator.add.
AnswerQuestion(c) ==
    /\ NodeReady(c, "answer_question")
    /\ LET call == calls[c]
           t == call.thread
       IN \E i \in (DOMAIN call.next) \ call.done, prompt_ok \in BOOLEAN :
          \E model_ok \in Outcomes(prompt_ok, BOOLEAN, TRUE) :
            LET ok == prompt_ok /\ model_ok
                cmd == AnswerGenerationNode(call.next[i].arg, ok)
                writes2 == call.writes \o cmd.update.questions_and_answers
                done2 == call.done \cup {i}
            IN IF done2 /= DOMAIN call.next
               THEN /\ calls' = [calls EXCEPT ![c] = [call EXCEPT
                          !.writes = writes2, !.done = done2]]
                    /\ last_op' = [op |-> "answer_child", thread |-> t,
                                   caller |-> c]
                    /\ UNCHANGED <<checkpoints, artifacts_data, results,
                                   visits, hitl_configs, user_sessions,
                                   artifacts_configured, session_dir, ncalls>>
               ELSE ApplyCommand(c, "answer_question",
                        Command(<<>>, [questions_and_answers |-> writes2],
                                <<>>),
                        FALSE, hitl_configs, ~prompt_ok)
    /\ UNCHANGED <<stage_vars, text_vars>>

----------------------------------------------------------------------------
(* HITL registry operations exposed by the API *)

\* variant: the setting is applied to every node of the thread
UpdateEveryNode(configs, t, node, enabled) ==
    LET cs == get_config(configs, t)
    IN IF node \in HITLNodes
       THEN [cs EXCEPT ![t] = HITLConfig(enabled, enabled)]
       ELSE cs

update_node_setting(configs, t, node, enabled) ==
    LET cs == get_config(configs, t)
    IN IF node \in HITLNodes
       THEN [cs EXCEPT ![t] = [cs[t] EXCEPT ![node] = enabled]]
       ELSE cs

bulk_update(configs, t, enable_all) ==
    [configs EXCEPT ![t] = HITLConfig(enable_all, enable_all)]

reset_config(configs, t) == [configs EXCEPT ![t] = DefaultHITLConfig]

\* a request to the HITL endpoints: the registry method and its flag
HitlOp(t, api, enabled) ==
    [op |-> "hitl_api", thread |-> t, caller |-> None, api |-> api,
     enabled |-> enabled]

UpdateNodeSetting(t) ==
    \E node \in HITLNodes \cup {"synthesis_material"}, enabled \in BOOLEAN :
        /\ hitl_configs' = update_node_setting(hitl_configs, t, node, enabled)
        /\ last_op' = HitlOp(t, "update_node_setting", enabled)
                          @@ [node |-> node]

BulkUpdate(t) ==
    \E enable_all \in BOOLEAN :
        /\ hitl_configs' = bulk_update(hitl_configs, t, enable_all)
        /\ last_op' = HitlOp(t, "bulk_update", enable_all)

ResetConfig(t) ==
    /\ hitl_configs' = reset_config(hitl_configs, t)
    /\ last_op' = HitlOp(t, "reset_config", TRUE)

\* The registry is configured between process_step calls.
HitlApi(t) ==
    /\ \A c \in Callers : calls[c] = NoCall
    /\ (UpdateNodeSetting(t) \/ BulkUpdate(t) \/ ResetConfig(t))
    /\ UNCHANGED <<checkpoints, user_sessions, artifacts_data,
                   artifacts_configured, session_dir, calls, results, ncalls,
                   visits>>
    /\ UNCHANGED <<stage_vars, text_vars>>

----------------------------------------------------------------------------
(* Text functions of the edit step (core/nodes/edit_material.py). A string  *)
(* is the sequence of its characters.                                        *)

\* no text function called
NoTextCall == [fn |-> "none"]
NoTextResult == [fn |-> "none"]

SP == " "
TAB == "<tab>"
CR == "<cr>"
LF == "<lf>"

\* the characters str.strip / str.rstrip remove
Whitespace == {SP, TAB, CR, LF}

\* the least element of a non-empty set of integers
Min(S) == CHOOSE x \in S : \A y \in S : x <= y

\* s[a:b] for 0 <= a
Slice(s, a, b) ==
    LET hi == IF b > Len(s) THEN Len(s) ELSE b
    IN IF a >= hi THEN <<>> ELSE SubSeq(s, a + 1, hi)

\* s.find(sub): the index of the first occurrence, -1 if there is none
find(s, sub) ==
    LET hits == {i \in 0..(Len(s) - Len(sub)) :
                    Slice(s, i, i + Len(sub)) = sub}
    IN IF hits = {} THEN -1 ELSE Min(hits)

\* html.entities.html5, the names written with the letters a, m, p
html5 ==
    (<<"a", "m", "p">> :> "&") @@ (<<"a", "m", "p", ";">> :> "&") @@
    (<<"a", "p", ";">> :> "<U+2248>") @@
    (<<"m", "a", "p", ";">> :> "<U+21A6>") @@
    (<<"m", "p", ";">> :> "<U+2213>") @@ (<<"p", "m", ";">> :> "<U+00B1>")

\* the characters that end the name of a character reference:
\* "[^\t\n\f <&#;]{1,32};?"
NotInName == {TAB, LF, SP, "<", "&", "#", ";"}

\* the index after the name characters of s that start at index i
RECURSIVE NameEnd(_, _, _)
NameEnd(s, i, n) ==
    IF i > Len(s) \/ s[i] \in NotInName \/ n = 32
    THEN i
    ELSE NameEnd(s, i + 1, n + 1)

\* html._replace_charref for a named reference: the entry of the name, or
\* the entry of its longest prefix followed by the rest, or the text itself
_replace_charref(ref) ==
    LET prefixes == {x \in 2..(Len(ref) - 1) :
                        SubSeq(ref, 1, x) \in DOMAIN html5}
    IN IF ref \in DOMAIN html5
       THEN <<html5[ref]>>
       ELSE IF prefixes /= {}
            THEN LET x == CHOOSE y \in prefixes : \A z \in prefixes : z <= y
                 IN <<html5[SubSeq(ref, 1, x)]>> \o SubSeq(ref, x + 1, Len(ref))
            ELSE <<"&">> \o ref

\* html.unescape from index i on: every match of the character reference
\* pattern is replaced, the replacement is not scanned again
RECURSIVE UnescapeFrom(_, _)
UnescapeFrom(s, i) ==
    IF i > Len(s)
    THEN <<>>
    ELSE IF s[i] /= "&"
         THEN <<s[i]>> \o UnescapeFrom(s, i + 1)
         ELSE LET e == NameEnd(s, i + 1, 0)
                  stop == IF e <= Len(s) /\ s[e] = ";" THEN e + 1 ELSE e
              IN IF e = i + 1
                 THEN <<"&">> \o UnescapeFrom(s, i + 1)
                 ELSE _replace_charref(SubSeq(s, i + 1, stop - 1))
                         \o UnescapeFrom(s, stop)

html_unescape(s) == UnescapeFrom(s, 1)

\* .replace('\r\n', '\n').replace('\r', '\n')
RECURSIVE LineEndings(_)
LineEndings(s) ==
    IF s = <<>>
    THEN <<>>
    ELSE IF Head(s) = CR
         THEN <<LF>> \o LineEndings(IF Len(s) > 1 /\ s[2] = LF
                                    THEN Tail(Tail(s)) ELSE Tail(s))
         ELSE <<Head(s)>> \o LineEndings(Tail(s))

\* s.split(sep) for a separator of one character
RECURSIVE split(_, _)
split(s, sep) ==
    LET i == find(s, <<sep>>)
    IN IF i < 0
       THEN <<s>>
       ELSE <<Slice(s, 0, i)>> \o split(Slice(s, i + 1, Len(s)), sep)

\* sep.join(lines) for a non-empty list
RECURSIVE join(_, _)
join(lines, sep) ==
    IF Len(lines) = 1
    THEN lines[1]
    ELSE lines[1] \o <<sep>> \o join(Tail(lines), sep)

RECURSIVE lstrip_blanks(_)
lstrip_blanks(s) ==
    IF s /= <<>> /\ Head(s) \in {SP, TAB} THEN lstrip_blanks(Tail(s)) ELSE s

\* re.sub(r'[ \t]+', ' ', line)
RECURSIVE CollapseBlanks(_)
CollapseBlanks(s) ==
    IF s = <<>>
    THEN <<>>
    ELSE IF Head(s) \in {SP, TAB}
         THEN <<SP>> \o CollapseBlanks(lstrip_blanks(Tail(s)))
         ELSE <<Head(s)>> \o CollapseBlanks(Tail(s))

RECURSIVE rstrip(_)
rstrip(s) ==
    IF s /= <<>> /\ s[Len(s)] \in Whitespace
    THEN rstrip(SubSeq(s, 1, Len(s) - 1))
    ELSE s

RECURSIVE lstrip(_)
lstrip(s) ==
    IF s /= <<>> /\ Head(s) \in Whitespace THEN lstrip(Tail(s)) ELSE s

strip(s) == lstrip(rstrip(s))

\* EditMaterialNode._normalize_text
_normalize_text(text) ==
    IF text = <<>>
    THEN text
    ELSE LET lines == split(LineEndings(html_unescape(text)), LF)
         IN join([i \in DOMAIN lines |-> rstrip(CollapseBlanks(lines[i]))],
                 LF)

\* the strings written with at most n of the given pieces
RECURSIVE Written(_, _)
Written(pieces, n) ==
    IF n = 0
    THEN {<<>>}
    ELSE LET shorter == Written(pieces, n - 1)
         IN shorter \cup {s \o p : s \in shorter, p \in pieces}

\* the pieces of the texts that are normalised: entity text, blanks and
\* line endings
MaxPieces == 3
NormalizePieces ==
    {<<"&">>, <<"a", "m", "p">>, <<";">>, <<"a">>, <<SP>>, <<TAB>>, <<CR>>,
     <<LF>>}

NormalizeCalls ==
    {[fn |-> "_normalize_text", text |-> x] :
        x \in Written(NormalizePieces, MaxPieces)}

NormalizeText ==
    /\ text_call.fn = "_normalize_text"
    /\ text_result = NoTextResult
    /\ text_result' = [fn |-> "_normalize_text",
                       value |-> _normalize_text(text_call.text)]
    /\ UNCHANGED <<text_call, workflow_vars, stage_vars>>

\* None where a string is expected
NoText == <<None>>

\* _find_original_position: the loop over the characters of the original,
\* each counted as one normalised character
RECURSIVE WalkOriginal(_, _, _, _)
WalkOriginal(original, i, norm_len, normalized_pos) ==
    IF i >= Len(original)
    THEN Len(original)
    ELSE IF norm_len + 1 >= normalized_pos
         THEN i
         ELSE WalkOriginal(original, i + 1, norm_len + 1, normalized_pos)

\* EditMaterialNode._find_original_position
_find_original_position(original, normalized, normalized_pos) ==
    IF normalized_pos >= Len(normalized)
    THEN Len(original)
    ELSE IF normalized_pos = 0
         THEN 0
         ELSE WalkOriginal(original, 0, 0, normalized_pos)

\* fuzzysearch.find_near_matches, a package outside the repository: it
\* raises, or returns the list of its matches
SearchError == [error |-> TRUE, matches |-> <<>>]
NoMatch == [error |-> FALSE, matches |-> <<>>]
Match(start, end, dist) == [start |-> start, end |-> end, dist |-> dist]
Found(match) == [error |-> FALSE, matches |-> <<match>>]

\* The outcomes of find_near_matches(pattern, text, max_l_dist): an
\* exception; the first exact occurrence when there is one; otherwise no
\* match or some span of the text within the distance.
NearMatches(pattern, text, max_l_dist) ==
    LET at == find(text, pattern)
    IN {SearchError} \cup
       IF at >= 0
       THEN {Found(Match(at, at + Len(pattern), 0))}
       ELSE LET spans == {x \in (0..Len(text)) \X (0..Len(text))
                                    \X (1..max_l_dist) :
                             /\ x[1] < x[2]
                             /\ x[3] < Len(pattern)
                             /\ x[2] - x[1] <= Len(pattern) + x[3]
                             /\ x[2] - x[1] >= Len(pattern) - x[3]}
            IN {NoMatch} \cup {Found(Match(x[1], x[2], x[3])) : x \in spans}

\* "max_distance" of fuzzy_find_and_replace, threshold = 0.85
max_distance(normalized_target) ==
    LET n == Len(normalized_target)
        by_threshold == IF (n * 15) \div 100 > 1 THEN (n * 15) \div 100 ELSE 1
        one_percent == IF n \div 100 < 50 THEN n \div 100 ELSE 50
    IN IF n > 1000
       THEN IF by_threshold < 100 THEN by_threshold ELSE 100
       ELSE IF n > 100
            THEN IF by_threshold > one_percent THEN by_threshold
                 ELSE one_percent
            ELSE by_threshold

\* the lengths of the normalised targets the distance is computed for
MaxLong == 1100
LongTargets == {[i \in 1..n |-> "a"] : n \in 0..MaxLong}

DistanceCalls == {[fn |-> "max_distance", normalized_target |-> x] :
                     x \in LongTargets}

\* lines 124-134 of fuzzy_find_and_replace on a normalised target
MaxDistance ==
    /\ text_call.fn = "max_distance"
    /\ text_result = NoTextResult
    /\ text_result' = [fn |-> "max_distance",
                       value |-> max_distance(text_call.normalized_target)]
    /\ UNCHANGED <<text_call, workflow_vars, stage_vars>>

\* "max(0.0, 1 - (match.dist / len(...)))" in hundredths, rounded down
Similarity(dist, length) ==
    IF dist >= length THEN 0 ELSE (100 * (length - dist)) \div length

EditResult(new_document, success, found_text, similarity) ==
    [new_document |-> new_document, success |-> success,
     found_text |-> found_text, similarity |-> similarity]

\* variant: an unsuccessful call returns the normalised document
UnsuccessfulNormalized(document) ==
    EditResult(_normalize_text(document), FALSE, NoText, 0)

\* "return document, False, None, 0.0"
Unsuccessful(document) == EditResult(document, FALSE, NoText, 0)

\* EditMaterialNode.fuzzy_find_and_replace; near and near_raw are the
\* outcomes of its two find_near_matches calls
fuzzy_find_and_replace(document, target, replacement, near, near_raw) ==
    LET normalized_replacement == _normalize_text(replacement)
        normalized_document == _normalize_text(document)
        normalized_target == _normalize_text(target)
        Failure == Unsuccessful(document)
        idx == find(normalized_document, normalized_target)
        orig_idx == _find_original_position(document, normalized_document,
                                            idx)
        raw_idx == find(document, target)
        Replaced(from, to) ==
            Slice(document, 0, from) \o normalized_replacement
               \o Slice(document, to, Len(document))
    IN IF target = <<>> \/ document = <<>>
       THEN Failure
       ELSE IF Len(target) < 10
       THEN IF idx >= 0 /\ orig_idx >= 0
            THEN EditResult(Replaced(orig_idx, orig_idx + Len(target)),
                            TRUE, target, 100)
            ELSE IF raw_idx >= 0
                 THEN EditResult(Replaced(raw_idx, raw_idx + Len(target)),
                                 TRUE, target, 100)
                 ELSE Failure
       ELSE IF near.error
       THEN Failure
       ELSE IF near.matches = <<>>
       THEN IF near_raw.error \/ near_raw.matches = <<>>
            THEN Failure
            ELSE LET match == near_raw.matches[1]
                 IN EditResult(Replaced(match.start, match.end), TRUE,
                               Slice(document, match.start, match.end),
                               Similarity(match.dist, Len(target)))
       ELSE LET match == near.matches[1]
                similarity == Similarity(match.dist, Len(normalized_target))
                orig_start == _find_original_position(
                                  document, normalized_document, match.start)
                orig_end == _find_original_position(
                                document, normalized_document, match.end)
            IN IF orig_start >= 0 /\ orig_end >= orig_start
               THEN EditResult(Replaced(orig_start, orig_end), TRUE,
                               Slice(document, orig_start, orig_end),
                               similarity)
               ELSE EditResult(Replaced(match.start, match.end), TRUE,
                               Slice(normalized_document, match.start,
                                     match.end),
                               similarity)

\* the documents, targets and replacements of the edits
MaxDocument == 3
MaxTarget == 2
EditPieces == {<<"a">>, <<"b">>, <<SP>>}

\* a target of ten characters
LongTarget == <<"a", "b", "a", "b", "a", "b", "a", "b", "a", "b">>

Documents ==
    Written(EditPieces, MaxDocument)
       \cup {LongTarget, <<"b">> \o LongTarget, Tail(LongTarget)}

Targets == Written(EditPieces, MaxTarget) \cup {LongTarget}

Replacements == {<<>>, <<"X">>, <<"&", "a", "m", "p", ";">>}

ReplaceCalls ==
    {[fn |-> "fuzzy_find_and_replace", document |-> d, target |-> t,
      replacement |-> r] :
        d \in Documents, t \in Targets, r \in Replacements}

\* the call reaches find_near_matches
SearchesNear(document, target) ==
    target /= <<>> /\ document /= <<>> /\ Len(target) >= 10

FuzzyFindAndReplace ==
    /\ text_call.fn = "fuzzy_find_and_replace"
    /\ text_result = NoTextResult
    /\ LET document == text_call.document
           target == text_call.target
           searches == SearchesNear(document, target)
           distance == max_distance(_normalize_text(target))
       IN \E near \in Outcomes(searches,
                               NearMatches(_normalize_text(target),
                                           _normalize_text(document),
                                           distance),
                               NoMatch) :
          \E near_raw \in Outcomes(searches /\ near = NoMatch,
                                   NearMatches(target, document, distance),
                                   NoMatch) :
             text_result' =
                 [fn |-> "fuzzy_find_and_replace", near |-> near,
                  near_raw |-> near_raw]
                    @@ fuzzy_find_and_replace(document, target,
                                              text_call.replacement,
                                              near, near_raw)
    /\ UNCHANGED <<text_call, workflow_vars, stage_vars>>

----------------------------------------------------------------------------
(* The security guard (core/security/guard.py). The detector is a model      *)
(* call; its text response is parsed as JSON.                                *)

\* what a call does: it returns a value or raises an exception
Returns(value) == [raised |-> FALSE, value |-> value]
Raises(exception) == [raised |-> TRUE, value |-> <<exception>>]

\* settings.security_min_content_length
security_min_content_length == 10

\* a key the JSON object does not have (JSON null is NoText)
Absent == <<"<absent>">>

DetectorOutcome(kind, has_injection, injection_text) ==
    [kind |-> kind, has_injection |-> has_injection,
     injection_text |-> injection_text]

InjectionTexts ==
    {Absent, NoText, <<>>, <<SP>>, <<"a", "b">>, <<"b", "b">>, LongTarget}

\* The outcomes of the detector: model.ainvoke raises; the response is not
\* JSON; the JSON is not an object; an object whose has_injection is missing,
\* a boolean or of another type and whose injection_text is missing, null or
\* a string.
DetectorOutcomes ==
    {DetectorOutcome(k, "absent", Absent) :
        k \in {"model_error", "unparsable", "not_object"}}
       \cup {DetectorOutcome("object", h, x) :
                h \in {"absent", "true", "false", "invalid"},
                x \in InjectionTexts}

\* SecurityGuard._parse_response: "except (json.JSONDecodeError, KeyError)"
_parse_response(response) ==
    IF response.kind = "unparsable"
    THEN Returns([has_injection |-> FALSE, injection_text |-> <<>>])
    ELSE IF response.kind = "not_object"
         THEN Raises("AttributeError")
         ELSE IF response.has_injection = "invalid"
              THEN Raises("ValidationError")
              ELSE Returns([has_injection |-> response.has_injection = "true",
                            injection_text |->
                                IF response.injection_text = Absent
                                THEN <<>>
                                ELSE response.injection_text])

\* "max_distance" of _fuzzy_remove, fuzzy_threshold = 0.85
guard_max_distance(target) ==
    LET n == Len(target)
        by_threshold == IF (n * 15) \div 100 > 1 THEN (n * 15) \div 100 ELSE 1
    IN IF n > 100 /\ by_threshold > 15 THEN 15 ELSE by_threshold

\* SecurityGuard._fuzzy_remove; near is the outcome of find_near_matches
_fuzzy_remove(document, target, near) ==
    LET at == find(document, target)
    IN IF target = <<>> \/ document = <<>>
       THEN NoText
       ELSE IF Len(target) < 10
       THEN IF at >= 0
            THEN strip(Slice(document, 0, at)
                          \o Slice(document, at + Len(target), Len(document)))
            ELSE NoText
       ELSE IF near.error \/ near.matches = <<>>
       THEN NoText
       ELSE LET match == near.matches[1]
                cleaned_document ==
                    strip(Slice(document, 0, match.start)
                             \o Slice(document, match.end, Len(document)))
            IN IF cleaned_document /= <<>> THEN cleaned_document ELSE NoText

\* variant: no handler around the body of validate_and_clean
PropagateException(outcome, text) == outcome

\* "except Exception as e: ... return text"
OnException(outcome, text) ==
    IF outcome.raised THEN Returns(text) ELSE outcome

\* validate_and_clean hands the reported injection to _fuzzy_remove
RemovesInjection(text, detector) ==
    /\ text /= <<>> /\ strip(text) /= <<>>
    /\ detector.kind = "object"
    /\ detector.has_injection = "true"
    /\ detector.injection_text \notin {Absent, NoText}
    /\ strip(detector.injection_text) /= <<>>

\* SecurityGuard.validate_and_clean
validate_and_clean(text, detector, near) ==
    LET parsed == _parse_response(detector)
        result == parsed.value
        cleaned == _fuzzy_remove(text, result.injection_text, near)
        body ==
            IF detector.kind = "model_error"
            THEN Raises("APIError")
            ELSE IF parsed.raised
            THEN parsed
            ELSE IF ~result.has_injection
            THEN Returns(text)
            ELSE IF result.injection_text = NoText
            THEN Raises("AttributeError")
            ELSE IF strip(result.injection_text) = <<>>
            THEN Returns(text)
            ELSE IF cleaned /= NoText /\ cleaned /= <<>> /\ cleaned /= text
            THEN Returns(cleaned)
            ELSE Returns(text)
    IN IF text = <<>> \/ strip(text) = <<>>
       THEN Returns(text)
       ELSE OnException(body, text)

\* BaseWorkflowNode.validate_input
validate_input(content, security_guard, detector, near) ==
    IF \/ ~security_guard
       \/ content = <<>>
       \/ Len(content) < security_min_content_length
    THEN Returns(content)
    ELSE validate_and_clean(content, detector, near)

\* the texts that are validated
CleanTexts ==
    {<<>>, <<SP>>, <<"a", "b", SP>>, <<SP, "b", "b", "a">>, LongTarget,
     <<SP>> \o LongTarget \o <<"b", "b">>}

CleanCalls ==
    {[fn |-> "validate_input", content |-> x, security_guard |-> g,
      detector |-> o] :
        x \in CleanTexts, g \in BOOLEAN, o \in DetectorOutcomes}
       \cup {[fn |-> "validate_and_clean", content |-> x,
              security_guard |-> TRUE, detector |-> o] :
                x \in CleanTexts, o \in DetectorOutcomes}

\* the call reaches find_near_matches
GuardSearches(call) ==
    /\ call.fn = "validate_input"
          => /\ call.security_guard
             /\ Len(call.content) >= security_min_content_length
    /\ RemovesInjection(call.content, call.detector)
    /\ Len(call.detector.injection_text) >= 10

ValidateInput ==
    /\ text_call.fn \in {"validate_input", "validate_and_clean"}
    /\ text_result = NoTextResult
    /\ \E near \in Outcomes(GuardSearches(text_call),
                            NearMatches(text_call.detector.injection_text,
                                        text_call.content,
                                        guard_max_distance(
                                           text_call.detector.injection_text)),
                            NoMatch) :
          text_result' =
              [fn |-> text_call.fn, near |-> near]
                 @@ IF text_call.fn = "validate_input"
                    THEN validate_input(text_call.content,
                                        text_call.security_guard,
                                        text_call.detector, near)
                    ELSE validate_and_clean(text_call.content,
                                            text_call.detector, near)
    /\ UNCHANGED <<text_call, workflow_vars, stage_vars>>

----------------------------------------------------------------------------
(* core/services/prompt_client.py: PromptConfigClient.generate_prompt *)

\* self.retry_delay = 0.5 seconds, in milliseconds
retry_delay == 500

\* what one request attempt does: it returns a valid prompt; it fails with
\* one of the exceptions of the except clause (timeout, connect error, HTTP
\* status error, ValueError for an empty or short prompt); it fails with
\* another exception (a connection lost while the response is read, a body
\* that is not a JSON object, a prompt that is not a string)
AttemptOutcomes == {"prompt", "caught", "uncaught"}

\* the body of "for attempt in range(self.retry_count)" from attempt on
RECURSIVE Attempts(_, _, _, _)
Attempts(retry_count, outcomes, attempt, sleeps) ==
    IF attempt >= retry_count
    THEN [result |-> "WorkflowExecutionError", attempts |-> attempt,
          sleeps |-> sleeps]
    ELSE CASE outcomes[attempt + 1] = "prompt" ->
                [result |-> "prompt", attempts |-> attempt + 1,
                 sleeps |-> sleeps]
           [] outcomes[attempt + 1] = "uncaught" ->
                [result |-> "Exception", attempts |-> attempt + 1,
                 sleeps |-> sleeps]
           [] outcomes[attempt + 1] = "caught" ->
                Attempts(retry_count, outcomes, attempt + 1,
                         IF attempt < retry_count - 1
                         THEN Append(sleeps, retry_delay * (2 ^ attempt))
                         ELSE sleeps)

generate_prompt(retry_count, outcomes) == Attempts(retry_count, outcomes, 0, <<>>)

\* retry counts of the client and what each attempt would do
MaxRetry == 3
PromptCalls ==
    UNION {[fn : {"generate_prompt"}, retry_count : {n},
            outcomes : [1..n -> AttemptOutcomes]] : n \in 0..MaxRetry}

GeneratePrompt ==
    /\ text_call.fn = "generate_prompt"
    /\ text_result = NoTextResult
    /\ text_result' = [fn |-> "generate_prompt"]
                         @@ generate_prompt(text_call.retry_count,
                                            text_call.outcomes)
    /\ UNCHANGED <<text_call, workflow_vars, stage_vars>>

----------------------------------------------------------------------------

WorkflowInit ==
    /\ checkpoints = [t \in Threads |-> NoCheckpoint]
    /\ hitl_configs = [t \in Threads |-> NoConfig]
    /\ user_sessions = [t \in Threads |-> NoSession]
    /\ artifacts_data = [t \in Threads |-> NoData]
    /\ artifacts_configured \in BOOLEAN
    /\ session_dir = [t \in Threads |-> NoSession]
    /\ calls = [c \in Callers |-> NoCall]
    /\ results = [t \in Threads |-> NoResult]
    /\ ncalls = 0
    /\ last_op = [op |-> "init", thread |-> None, caller |-> None]
    /\ visits = [t \in Threads |-> NoVisit]

\* QuestionGenerationNode.get_node_name, the method of the class; a name is
\* the sequence of its parts
NodeName == <<"generating_questions">>

\* no invocation of the question node running for a thread
IdleTask(runs) == [pc |-> "idle", runs |-> runs]

StageIdle ==
    /\ current_stage = "unset"
    /\ node_task = [t \in Threads |-> IdleTask(0)]
    /\ get_node_name = NodeName

TextIdle ==
    /\ text_call = NoTextCall
    /\ text_result = NoTextResult

Init == WorkflowInit /\ StageIdle /\ TextIdle

Step(c) ==
    \/ StreamStart(c) /\ UNCHANGED <<stage_vars, text_vars>>
    \/ InputProcessing(c)
    \/ GeneratingContent(c)
    \/ RecognitionHandwritten(c)
    \/ SynthesisMaterial(c)
    \/ EditMaterial(c)
    \/ GeneratingQuestions(c)
    \/ AnswerQuestion(c)
    \/ FinalizeWorkflow(c) /\ UNCHANGED <<stage_vars, text_vars>>

Begin(c, t) ==
    /\ \E query \in Texts, images \in ImageInputs :
          PrepareWorkflow(c, t, query, images)
    /\ UNCHANGED <<stage_vars, text_vars>>

Delete(t) == DeleteThread(t) /\ UNCHANGED <<stage_vars, text_vars>>

\* The workflow of one thread id, its calls issued one at a time by one
\* caller.
MainThread == "t1"
MainCaller == "c1"

Next ==
    \/ Serialised(MainThread) /\ Begin(MainCaller, MainThread)
    \/ Step(MainCaller)
    \/ Delete(MainThread)
    \/ HitlApi(MainThread)

Spec == Init /\ [][Next]_vars

\* process_step as the code runs it: main.py awaits
\* graph_manager.process_step for every request and neither takes a lock, so
\* the calls of two requests on one thread id interleave at their awaits.
\* a request that carries a text and no images
BeginText(c, t) ==
    /\ \E query \in Texts : PrepareWorkflow(c, t, query, <<>>)
    /\ UNCHANGED <<stage_vars, text_vars>>

NextUnserialised ==
    \/ \E c \in Callers : BeginText(c, MainThread)
    \/ \E c \in Callers : Step(c)
    \/ HitlApi(MainThread)

\* the deployment with an artifacts manager
InitConfigured == Init /\ artifacts_configured

SpecUnserialised == InitConfigured /\ [][NextUnserialised]_vars

\* The process restarts between two calls: GraphManager.__init__ and the
\* HITLManager singleton start from empty dictionaries; the checkpoints
\* (Postgres) and the session directories (disk) are what they were.
Restart ==
    /\ \A c \in Callers : calls[c] = NoCall
    /\ \E t \in Threads : checkpoints[t] /= NoCheckpoint
    /\ hitl_configs' = [t \in Threads |-> NoConfig]
    /\ user_sessions' = [t \in Threads |-> NoSession]
    /\ artifacts_data' = [t \in Threads |-> NoData]
    /\ last_op' = [op |-> "restart", thread |-> None, caller |-> None]
    /\ UNCHANGED <<checkpoints, artifacts_configured, session_dir, calls,
                   results, ncalls, visits>>
    /\ UNCHANGED <<stage_vars, text_vars>>

NextRestart ==
    \/ Serialised(MainThread) /\ Begin(MainCaller, MainThread)
    \/ Step(MainCaller)
    \/ Restart

SpecRestart == InitConfigured /\ [][NextRestart]_vars

\* The requests of several thread ids against one GraphManager, one request
\* at a time: process_step, delete_thread and the HITL endpoints take the
\* thread id of the request.
NextThreads ==
    \/ \E t \in Threads : Serialised(t) /\ BeginText(MainCaller, t)
    \/ Step(MainCaller)
    \/ \E t \in Threads : Delete(t)
    \/ \E t \in Threads : HitlApi(t)

SpecThreads == InitConfigured /\ [][NextThreads]_vars

\* The text functions, each applied to the arguments of one call.
TextCalls == NormalizeCalls \cup ReplaceCalls \cup CleanCalls \cup PromptCalls
             \cup DistanceCalls

InitText ==
    /\ WorkflowInit /\ ~artifacts_configured
    /\ StageIdle
    /\ text_call \in TextCalls
    /\ text_result = NoTextResult

NextText ==
    \/ NormalizeText
    \/ FuzzyFindAndReplace
    \/ ValidateInput
    \/ GeneratePrompt
    \/ MaxDistance

SpecText == InitText /\ [][NextText]_vars

----------------------------------------------------------------------------
(* The question node between its awaits. create_workflow builds one          *)
(* QuestionGenerationNode for the process; the handler invocations of all    *)
(* threads run on it as coroutines of one event loop and interleave at       *)
(* their awaits: render_prompt awaits the prompt service after               *)
(* get_prompt_kwargs has set self._current_stage, and get_model reads        *)
(* self._current_stage after that await.                                     *)

\* the thread states the handler is invoked on: no feedback history yet, or
\* a proposed question list awaiting the user's feedback
StageStates == {[feedback_messages |-> <<>>],
                [feedback_messages |-> <<AIMessage(<<1>>)>>]}

\* the user_feedback argument render_prompt is called with: None in the
\* autonomous branch and in the first generation, the resume value of
\* interrupt() in the revision
HasUserFeedback(state, hitl_enabled) == hitl_enabled /\ ~is_initial(state)

\* render_prompt: "if user_feedback or not self.is_initial(state)"
template_variant(state, user_feedback_given) ==
    IF user_feedback_given \/ ~is_initial(state) THEN "further" ELSE "initial"

\* QuestionGenerationNode.get_system_prompt up to the await: the name under
\* which the prompt is requested
get_system_prompt_name(name, variant) ==
    IF variant = "further" THEN Append(name, "_further") ELSE name

\* __call__ up to the await inside render_prompt: get_prompt_kwargs sets the
\* stage; get_system_prompt reads self.get_node_name(), keeps the attribute
\* as original_get_node_name, replaces it by a lambda that returns the name
\* of the variant, and the parent requests the prompt under
\* self.get_node_name()
StartRender(t) ==
    /\ node_task[t].pc = "idle"
    /\ node_task[t].runs < MaxInvocations
    /\ \E state \in StageStates, hitl_enabled \in BOOLEAN :
          LET feedback == HasUserFeedback(state, hitl_enabled)
              variant == template_variant(state, feedback)
              node_name == get_system_prompt_name(get_node_name, variant)
          IN /\ current_stage' = get_prompt_kwargs_stage(feedback)
             /\ get_node_name' = node_name
             /\ node_task' = [node_task EXCEPT ![t] =
                   [pc |-> "render_prompt", runs |-> node_task[t].runs,
                    hitl |-> hitl_enabled, revision |-> feedback,
                    model |-> None, variant |-> variant,
                    requested |-> node_name,
                    original_get_node_name |-> get_node_name]]
    /\ UNCHANGED <<workflow_vars, text_vars>>

\* the prompt has arrived: get_system_prompt restores
\* original_get_node_name in its finally clause, the model is chosen and
\* model.ainvoke awaited
ChooseModel(t) ==
    /\ node_task[t].pc = "render_prompt"
    /\ get_node_name' = node_task[t].original_get_node_name
    /\ node_task' = [node_task EXCEPT ![t] =
          [@ EXCEPT !.pc = "ainvoke",
                    !.model = IF ~node_task[t].hitl THEN "Questions"
                              ELSE get_model(current_stage)]]
    /\ UNCHANGED <<current_stage, workflow_vars, text_vars>>

\* the response has arrived: the handler returns or raises
FinishInvocation(t) ==
    /\ node_task[t].pc = "ainvoke"
    /\ node_task' = [node_task EXCEPT ![t] = IdleTask(node_task[t].runs + 1)]
    /\ UNCHANGED <<current_stage, get_node_name, workflow_vars, text_vars>>

NextStage ==
    \E t \in Threads :
        \/ StartRender(t)
        \/ ChooseModel(t)
        \/ FinishInvocation(t)

SpecStage == Init /\ [][NextStage]_vars

----------------------------------------------------------------------------
(* Properties *)

Nodes == {"input_processing", "generating_content", "recognition_handwritten",
          "synthesis_material", "edit_material", "generating_questions",
          "answer_question"}

\* the last step was a superstep of a node handler
IsStepOp == last_op.op \in Nodes

\* the call of the last step, while it is in flight
LastCall == calls[last_op.caller]

\* the checkpoint of the thread of the last step
LastCheckpoint == checkpoints[last_op.thread]

\* C1: when process_step returned a suspended result for a thread, the
\* thread's checkpoint holds the pending suspension with the cursor at the
\* suspending step; the next call on the thread is a resume whose text is the
\* resume value, and the first handler it runs is the suspending step, run
\* with that resume value.
C1_SuspendedRunResumes ==
    /\ \A t \in Threads :
          results[t].kind = "suspended" =>
              /\ checkpoints[t] /= NoCheckpoint
              /\ PendingStep(checkpoints[t]) = results[t].step
              /\ checkpoints[t].next /= <<>>
              /\ checkpoints[t].next[1].node = results[t].step
    /\ (last_op.op = "stream" /\ last_op.pending /= None) =>
          /\ ~last_op.fresh
          /\ LastCall.resume = [given |-> TRUE, value |-> last_op.query]
          /\ LastCall.next /= <<>>
          /\ LastCall.next[1].node = last_op.pending
    /\ (IsStepOp /\ last_op.pending /= None) =>
          /\ last_op.op = last_op.pending
          /\ last_op.resume.given

\* a suspended step was re-entered with the text of the next call
C1_Witness ==
    /\ IsStepOp
    /\ last_op.pending = "edit_material"
    /\ last_op.kind = "command"
    /\ last_op.resume = [given |-> TRUE, value |-> "long text"]

\* C2 (as stated): a call on a thread without checkpoint starts a run whose
\* state is the call's text as input_content with every other field at its
\* default, the cursor at input_processing.
C2_FreshStateIsTextAndDefaults ==
    (last_op.op = "stream" /\ last_op.fresh) =>
        /\ LastCheckpoint /= NoCheckpoint
        /\ LastCheckpoint.values =
              [GeneralState("", <<>>) EXCEPT !.input_content = last_op.query]
        /\ LastCheckpoint.next = EntryPoint

\* C2 (amended): a call is a fresh run exactly when its thread has no
\* checkpoint; the fresh state is the call's text as input_content, the
\* call's image paths as image_paths and every other field at its default,
\* the cursor at input_processing.
C2_FreshRunState ==
    /\ last_op.op = "prepare" =>
          (LastCall.fresh <=> LastCheckpoint = NoCheckpoint)
    /\ (last_op.op = "stream" /\ last_op.fresh) =>
          /\ LastCheckpoint /= NoCheckpoint
          /\ LastCheckpoint.values =
                [GeneralState("", <<>>) EXCEPT
                    !.input_content = last_op.query,
                    !.image_paths = last_op.images]
          /\ LastCheckpoint.next = EntryPoint
          /\ LastCall.next = EntryPoint
          /\ LastCall.values = LastCheckpoint.values
          /\ ~LastCall.resume.given

\* a fresh run started on a thread that had completed or been deleted,
\* with a text and image paths
C2_Witness ==
    /\ last_op.op = "stream"
    /\ last_op.fresh
    /\ last_op.query = "long text"
    /\ last_op.images /= <<>>
    /\ ncalls = 2

\* C3: _finalize_workflow returns the completed result exactly when the run
\* reached the terminal marker with no suspension pending; then the thread's
\* checkpoint and artifact bookkeeping are gone; a suspended result leaves
\* the checkpoint in place.
C3_CompletedIffTerminal ==
    last_op.op = "finalize" =>
        LET t == last_op.thread
            r == results[t]
        IN /\ r.kind \in {"completed", "suspended"}
           /\ r.kind = "completed" <=>
                 (last_op.terminal /\ last_op.pending = None)
           /\ r.kind = "completed" =>
                 /\ r.message = DoneMessage
                 /\ checkpoints[t] = NoCheckpoint
                 /\ artifacts_data[t] = NoData
           /\ r.kind = "suspended" =>
                 /\ checkpoints[t] /= NoCheckpoint
                 /\ PendingStep(checkpoints[t]) = last_op.pending

\* a run completed after artifacts had been tracked
C3_Witness ==
    /\ last_op.op = "finalize"
    /\ results[last_op.thread].kind = "completed"
    /\ results[last_op.thread].session_id /= NoSession
    /\ checkpoints[last_op.thread] = NoCheckpoint

\* C4: after delete_thread(T) no per-thread store holds an entry for T:
\* checkpoint, HITL config, artifact bookkeeping and session.
C4_DeleteEvictsEveryStore ==
    last_op.op = "delete_thread" =>
        LET t == last_op.thread
        IN /\ checkpoints[t] = NoCheckpoint
           /\ hitl_configs[t] = NoConfig
           /\ artifacts_data[t] = NoData
           /\ user_sessions[t] = NoSession

\* delete_thread ran on a thread with a checkpoint and a changed HITL config
C4_Witness ==
    /\ last_op.op = "delete_thread"
    /\ hitl_configs[last_op.thread] = HITLConfig(FALSE, FALSE)
    /\ ncalls > 0

\* a call that has loaded the thread's checkpoint and has not returned
Stepping(c, t) ==
    /\ calls[c] /= NoCall
    /\ calls[c].thread = t
    /\ calls[c].pc \in {"run", "finalize"}

\* C5: two process_step calls on one thread id are never both stepping the
\* thread.
C5_CallsOnOneThreadAreSerialised ==
    \A t \in Threads : \A c1, c2 \in Callers :
        (Stepping(c1, t) /\ Stepping(c2, t)) => c1 = c2

\* C6: whatever the invocations of other threads do at the node, a revision
\* invocation calls the decision-schema model (QuestionsHITL) and an initial
\* invocation the plain question-list model (Questions).
C6_ModelSchemaIsTheInvocationsOwn ==
    \A t \in Threads :
        node_task[t].pc = "ainvoke" =>
            node_task[t].model = IF node_task[t].revision
                                 THEN "QuestionsHITL" ELSE "Questions"

\* a revision and an initial invocation of two threads are both awaiting
\* their model
C6_Witness ==
    /\ node_task["t1"].pc = "ainvoke" /\ node_task["t1"].revision
    /\ node_task["t2"].pc = "ainvoke" /\ ~node_task["t2"].revision
    /\ node_task["t2"].hitl

\* C7: when the fan-out superstep has finished, questions_and_answers holds
\* exactly one entry per spawned child, whatever the completion order and
\* the outcome of each child: the entries' questions are the multiset of the
\* questions sent.
C7_FanOutYieldsOneEntryPerChild ==
    (last_op.op = "answer_question") =>
        LET qa == LastCheckpoint.values.questions_and_answers
            sent == last_op.tasks
        IN /\ Len(qa) = Len(sent)
           /\ SeqToBag([i \in DOMAIN qa |-> qa[i].question])
                 = SeqToBag([i \in DOMAIN sent |-> sent[i].arg])
           /\ \A i \in DOMAIN qa : qa[i].kind \in {"answer", "error"}

\* two children finished in the reverse order, one of them failing
C7_Witness ==
    /\ last_op.op = "answer_question"
    /\ Len(last_op.tasks) = 2
    /\ LET qa == LastCheckpoint.values.questions_and_answers
       IN /\ Len(qa) = 2
          /\ qa[1].question = last_op.tasks[2].arg
          /\ qa[1].kind = "error"
          /\ qa[2].kind = "answer"

\* the last step was the revision decision of generating_questions, and it
\* was finalize
IsFinalizeDecision ==
    /\ last_op.op = "generating_questions"
    /\ last_op.kind = "command"
    /\ last_op.model_calls = <<"QuestionsHITL">>
    /\ last_op.goto /= GotoNode("generating_questions")

\* C8: on the finalize decision the approved list is state.questions, the
\* feedback history is empty and one answer_question child is spawned per
\* question of state.questions.
C8_FinalizeAnswersStoredQuestions ==
    IsFinalizeDecision =>
        /\ LastCheckpoint.values.feedback_messages = <<>>
        /\ last_op.goto = SendAnswers(LastCheckpoint.values.questions)

\* a finalize decision was made
C8_Witness ==
    /\ IsFinalizeDecision
    /\ LastCheckpoint.values.questions /= <<>>

\* the last step ran edit_material with HITL disabled for it
IsEditWithoutHitl ==
    /\ last_op.op = "edit_material"
    /\ ~last_op.hitl

SkippedHitl ==
    /\ last_op.kind = "command"
    /\ last_op.goto = GotoNode("generating_questions")
    /\ last_op.model_calls = <<>>
    /\ LastCheckpoint.values.last_action = "skip_hitl"

\* C9 (as stated): in every thread state, edit_material with HITL disabled
\* goes to generating_questions with last_action = skip_hitl, without
\* suspension and without model call.
C9_DisabledEditAlwaysSkips ==
    IsEditWithoutHitl => SkippedHitl

\* C9 (amended): in every thread state with a non-empty synthesized
\* material, edit_material with HITL disabled goes to generating_questions
\* with last_action = skip_hitl, without suspension and without model call;
\* with an empty material it goes to generating_questions as well, without
\* suspension and without model call, and leaves last_action as it was.
C9_DisabledEditSkips ==
    IsEditWithoutHitl =>
        /\ last_op.kind = "command"
        /\ last_op.goto = GotoNode("generating_questions")
        /\ last_op.model_calls = <<>>
        /\ LastCheckpoint.values.synthesized_material /= "" =>
              LastCheckpoint.values.last_action = "skip_hitl"

\* edit_material was skipped on a thread with material
C9_Witness ==
    /\ IsEditWithoutHitl
    /\ LastCheckpoint.values.synthesized_material /= ""
    /\ LastCheckpoint.values.last_action = "skip_hitl"

\* C10: the first decision call (ActionDecision, QuestionsHITL) of a visit of
\* a HITL-enabled step that was entered with empty feedback history is made
\* after exactly one suspension of that visit.
C10_OneSuspensionBeforeDecision ==
    (IsStepOp /\ last_op.first_decision /\ last_op.empty_entry /\ last_op.hitl)
        => last_op.susp = 1

\* a first decision was made in edit_material
C10_Witness ==
    /\ last_op.op = "edit_material"
    /\ last_op.first_decision
    /\ last_op.empty_entry
    /\ last_op.hitl
    /\ last_op.susp = 1

\* C11: generating_questions run with HITL disabled for it on the thread
\* never suspends; its one generation is made with the plain question-list
\* model (Questions), the generated questions are stored with an empty
\* feedback history and one answer_question child is spawned per stored
\* question, in order. The step fails only when the prompt service does.
C11_AutonomousGenerationFansOut ==
    (last_op.op = "generating_questions" /\ ~last_op.hitl) =>
        /\ last_op.kind /= "interrupt"
        /\ last_op.kind = "raise" => last_op.prompt_failed
        /\ last_op.kind = "command" =>
              /\ last_op.model_calls = <<"Questions">>
              /\ LastCheckpoint.values.feedback_messages = <<>>
              /\ LastCheckpoint.values.questions = last_op.update.questions
              /\ last_op.goto = SendAnswers(LastCheckpoint.values.questions)
              /\ LastCall.next = last_op.goto

\* the autonomous generation ran on a thread that was suspended at the step
\* when HITL was disabled, and produced two questions
C11_Witness ==
    /\ last_op.op = "generating_questions"
    /\ ~last_op.hitl
    /\ last_op.pending = "generating_questions"
    /\ last_op.kind = "command"
    /\ Len(last_op.goto) = 2

\* C12: the message a call returns announces exactly the artifacts whose URL
\* was registered since the last announcement, and none of them stays
\* pending: every production event is announced once, in the first message
\* returned after it.
C12_EveryArtifactAnnouncedOnce ==
    last_op.op = "finalize" =>
        LET t == last_op.thread
        IN /\ results[t].announced = last_op.unsent
           /\ _get_pending_urls(artifacts_data, t) = {}

\* a suspension message announced the artifacts produced before it
C12_Witness ==
    /\ last_op.op = "finalize"
    /\ results[last_op.thread].kind = "suspended"
    /\ "learning_material" \in results[last_op.thread].announced
    /\ "learning_material" \in DOMAIN artifacts_data[last_op.thread].sent_urls

\* C13: the completion message announces every URL that was pending when
\* the run completed.
C13_CompletionAnnouncesPending ==
    (last_op.op = "finalize" /\ results[last_op.thread].kind = "completed") =>
        last_op.unsent \subseteq results[last_op.thread].announced

\* a run completed with the questions and answers artifacts still pending
C13_Witness ==
    /\ last_op.op = "finalize"
    /\ results[last_op.thread].kind = "completed"
    /\ {"questions", "answers"} \subseteq last_op.unsent

\* C14: while a run has a session directory (created when its learning
\* material was persisted), the artifact bookkeeping of the thread holds that
\* session id and no other, through every later step and resume; every
\* suspended or completed result of the run reports it.
C14_RunKeepsItsSession ==
    /\ \A t \in Threads :
          /\ (session_dir[t] /= NoSession) <=>
                IsRealSession(SessionOf(artifacts_data, t))
          /\ session_dir[t] /= NoSession =>
                SessionOf(artifacts_data, t) = session_dir[t]
    /\ (last_op.op = "finalize" /\ last_op.session_dir /= NoSession) =>
          results[last_op.thread].session_id = last_op.session_dir

\* a resumed call returned the session the first call of the run had created
C14_Witness ==
    /\ last_op.op = "finalize"
    /\ ncalls = 2
    /\ results[last_op.thread].kind = "suspended"
    /\ results[last_op.thread].session_id = RealSession(1)
    /\ user_sessions[last_op.thread] = UuidSession(1)

\* C15: a suspended run is resumed at its suspended step by the next call,
\* also after a restart of the process; every artifact of the run is pushed
\* under the session directory the run created, and every suspended or
\* completed result of the run reports that session.
C15_RestartKeepsRunAndSession ==
    /\ (last_op.op = "stream" /\ last_op.after.op = "restart"
            /\ last_op.pending /= None) =>
          /\ ~last_op.fresh
          /\ LastCall.next /= <<>>
          /\ LastCall.next[1].node = last_op.pending
          /\ LastCall.values.generated_material
                = LastCheckpoint.values.generated_material
    /\ (IsStepOp /\ last_op.pushes /\ session_dir[last_op.thread] /= NoSession)
          => SessionOf(artifacts_data, last_op.thread)
                = session_dir[last_op.thread]
    /\ (last_op.op = "finalize" /\ last_op.session_dir /= NoSession) =>
          results[last_op.thread].session_id /= NoSession
          /\ results[last_op.thread].session_id = last_op.session_dir

\* after a restart a call resumed the run that was suspended at
\* recognition_handwritten with its learning material on disk
C15_Witness ==
    /\ last_op.op = "stream"
    /\ last_op.after.op = "restart"
    /\ last_op.pending = "recognition_handwritten"
    /\ session_dir[last_op.thread] = RealSession(1)

\* the last step was an edit whose target text was not found
EditNotFound ==
    /\ last_op.op = "edit_material"
    /\ last_op.kind = "command"
    /\ Get(last_op.update, "last_action", None) = "edit_error"

\* C16: an edit whose target is not found leaves synthesized_material,
\* edit_count and every other field of the prior state as they were, keeps
\* the earlier feedback messages in order, and sets last_action = edit_error,
\* the error text as agent_message and needs_user_input = true; the next
\* entry of edit_material suspends with that text and calls no model.
C16_EditErrorKeepsState ==
    [][ /\ EditNotFound' =>
              LET old == calls[last_op'.caller].values
                  new == checkpoints'[last_op'.thread].values
                  n == Len(old.feedback_messages)
              IN /\ new.synthesized_material = old.synthesized_material
                 /\ new.edit_count = old.edit_count
                 /\ Len(new.feedback_messages) >= n
                 /\ SubSeq(new.feedback_messages, 1, n) = old.feedback_messages
                 /\ new.last_action = "edit_error"
                 /\ new.agent_message = EditErrorMsg
                 /\ new.needs_user_input
                 /\ \A f \in DOMAIN old :
                        f \notin {"feedback_messages", "last_action",
                                  "agent_message", "needs_user_input"}
                            => new[f] = old[f]
                 /\ checkpoints'[last_op'.thread].next
                        = GotoNode("edit_material")
        /\ (EditNotFound /\ last_op'.op = "edit_material" /\ last_op'.hitl) =>
              /\ last_op'.kind = "interrupt"
              /\ last_op'.model_calls = <<>>
              /\ checkpoints'[last_op'.thread].interrupts
                    = <<[node |-> "edit_material",
                         message |-> <<EditErrorMsg>>]>>
              /\ checkpoints'[last_op'.thread].values
                    = checkpoints[last_op'.thread].values
      ]_vars

\* after an edit that did not find its target the step suspended with the
\* error text
C16_Witness ==
    /\ last_op.op = "edit_material"
    /\ last_op.kind = "interrupt"
    /\ LastCheckpoint.values.last_action = "edit_error"
    /\ LastCheckpoint.interrupts[1].message = <<EditErrorMsg>>
    /\ Len(LastCheckpoint.values.feedback_messages) = 3

C18_PromptFailureFailsTheCall ==
    (IsStepOp /\ last_op.prompt_failed) =>
        /\ last_op.kind = "raise"
        /\ results[last_op.thread] = ErrorResult
        /\ LastCheckpoint /= NoCheckpoint
        /\ LastCheckpoint.next /= <<>>
        /\ LastCheckpoint.next[1].node = last_op.op

\* the prompt service failed in synthesis_material and the call failed
C18_Witness ==
    /\ last_op.op = "synthesis_material"
    /\ last_op.prompt_failed
    /\ last_op.kind = "raise"
    /\ results[last_op.thread] = ErrorResult

\* C19: a push that fails does not fail the call and does not change what
\* the step does to the workflow: the new checkpoint is the handler's update
\* applied to the prior state with the handler's next step, and the call goes
\* on from it.
C19_PersistenceFailureIsSwallowed ==
    [][ (last_op'.op \in Nodes /\ last_op'.persist_failed) =>
            LET t == last_op'.thread
                c == last_op'.caller
            IN /\ last_op'.kind = "command"
               /\ results'[t] = results[t]
               /\ calls'[c] /= NoCall
               /\ checkpoints'[t] =
                     Snapshot(ApplyUpdate(calls[c].values, last_op'.update),
                              last_op'.goto, <<>>)
               /\ calls'[c].values = checkpoints'[t].values
               /\ calls'[c].next = last_op'.goto
               /\ calls'[c].pc = IF last_op'.goto = <<>> THEN "finalize"
                                 ELSE "run"
      ]_vars

\* the push of the learning material failed and the run went on to
\* recognition_handwritten
C19_Witness ==
    /\ last_op.op = "generating_content"
    /\ last_op.persist_failed
    /\ LastCall.next = GotoNode("recognition_handwritten")
    /\ LastCheckpoint.values.generated_material /= ""

\* C20: the call that follows delete_thread(T) on T starts a fresh run, with
\* empty feedback_messages, edit_count = 0 and empty synthesized_material,
\* whatever the deleted run had accumulated.
C20_DeletedThreadStartsAfresh ==
    /\ (last_op.op = "prepare" /\ last_op.after.op = "delete_thread"
            /\ last_op.after.thread = last_op.thread) => LastCall.fresh
    /\ (last_op.op = "stream" /\ last_op.after.op = "delete_thread"
            /\ last_op.after.thread = last_op.thread) =>
          /\ last_op.fresh
          /\ LastCheckpoint /= NoCheckpoint
          /\ LastCheckpoint.values.feedback_messages = <<>>
          /\ LastCheckpoint.values.edit_count = 0
          /\ LastCheckpoint.values.synthesized_material = ""
          /\ LastCall.values = LastCheckpoint.values

\* a run was started on a thread whose deleted run had feedback history and
\* synthesized material
C20_Witness ==
    /\ last_op.op = "stream"
    /\ last_op.after.op = "delete_thread"
    /\ last_op.after.feedback > 0
    /\ last_op.after.material
    /\ last_op.fresh

----------------------------------------------------------------------------
(* C21: delete_thread is idempotent. A delete_thread(t) that directly       *)
(* follows a delete_thread(t), or that is called for a thread id with no    *)
(* entry in any store, leaves every store as it was, and no delete_thread   *)
(* changes the entry of another thread id.                                  *)

\* the stores delete_thread or a run writes
Stores == <<checkpoints, hitl_configs, user_sessions, artifacts_data,
            session_dir>>

\* the entries of thread id t
EntriesOf(stores, t) == [i \in DOMAIN stores |-> stores[i][t]]

\* nothing was ever stored for t
NeverExisted(t) ==
    EntriesOf(Stores, t) = <<NoCheckpoint, NoConfig, NoSession, NoData,
                             NoSession>>

C21_DeleteThreadIsIdempotent ==
    [][last_op'.op = "delete_thread" =>
          /\ \A u \in Threads \ {last_op'.thread} :
                EntriesOf(Stores', u) = EntriesOf(Stores, u)
          /\ (last_op'.again \/ NeverExisted(last_op'.thread))
                => Stores' = Stores]_vars

\* delete_thread(t1) is repeated while t2 holds a run and its bookkeeping
C21_Witness ==
    /\ last_op.op = "delete_thread"
    /\ last_op.again
    /\ last_op.thread = "t1"
    /\ checkpoints["t2"] /= NoCheckpoint
    /\ artifacts_data["t2"] /= NoData
    /\ user_sessions["t2"] /= NoSession

----------------------------------------------------------------------------
(* C22: the text normaliser is idempotent: normalising a normalised text    *)
(* returns it unchanged, _normalize_text(_normalize_text(x)) =              *)
(* _normalize_text(x), for every text x.                                    *)

Normalized == text_result.fn = "_normalize_text"

C22_NormalizeIsIdempotent ==
    Normalized => _normalize_text(text_result.value) = text_result.value

\* a text with blanks, a tab and a CRLF line ending was normalised to a
\* different text, which normalises to itself
C22_Witness ==
    /\ Normalized
    /\ text_call.text = <<SP, TAB, CR>>
    /\ text_result.value = <<LF>>
    /\ _normalize_text(text_result.value) = text_result.value

----------------------------------------------------------------------------
(* C23: when the target is a non-empty verbatim substring of the document,  *)
(* fuzzy_find_and_replace succeeds with similarity 1.0 and returns the      *)
(* document with one occurrence of the target replaced by the normalised    *)
(* replacement, every character outside that occurrence unchanged.          *)

EditReturned == text_result.fn = "fuzzy_find_and_replace"

\* the indices at which sub occurs in s
Occurrences(s, sub) ==
    {i \in 0..(Len(s) - Len(sub)) : Slice(s, i, i + Len(sub)) = sub}

\* document with the occurrence of target at index i replaced
ReplacedAt(document, target, replacement, i) ==
    Slice(document, 0, i) \o _normalize_text(replacement)
       \o Slice(document, i + Len(target), Len(document))

C23_VerbatimTargetIsReplaced ==
    (/\ EditReturned
     /\ text_call.target /= <<>>
     /\ Occurrences(text_call.document, text_call.target) /= {})
    => /\ text_result.success
       /\ text_result.similarity = 100
       /\ \E i \in Occurrences(text_call.document, text_call.target) :
             text_result.new_document =
                ReplacedAt(text_call.document, text_call.target,
                           text_call.replacement, i)

\* a target at the start of the document was replaced in place
C23_Witness ==
    /\ EditReturned
    /\ text_call.document = <<"a", "b">>
    /\ text_call.target = <<"a">>
    /\ text_call.replacement = <<"X">>
    /\ text_result.success
    /\ text_result.new_document = <<"X", "b">>

----------------------------------------------------------------------------
(* C24: for a target shorter than 10 characters fuzzy_find_and_replace      *)
(* succeeds only if the target occurs in the document, raw or after         *)
(* normalising both; a target that occurs nowhere yields failure with the   *)
(* document unchanged.                                                      *)

\* the target occurs in the document, raw or both normalised
OccursExactly(document, target) ==
    \/ Occurrences(document, target) /= {}
    \/ /\ _normalize_text(target) /= <<>>
       /\ Occurrences(_normalize_text(document), _normalize_text(target))
             /= {}

C24_ShortTargetMatchesExactly ==
    (EditReturned /\ Len(text_call.target) < 10)
    => /\ text_result.success
          => OccursExactly(text_call.document, text_call.target)
       /\ ~OccursExactly(text_call.document, text_call.target)
          => /\ ~text_result.success
             /\ text_result.new_document = text_call.document

\* a short target that differs from every substring in one character fails
C24_Witness ==
    /\ EditReturned
    /\ text_call.document = <<"a", "b", "a">>
    /\ text_call.target = <<"a", "a">>
    /\ ~text_result.success
    /\ text_result.new_document = text_call.document

----------------------------------------------------------------------------
(* C25: content sanitisation never raises into the caller. For every text   *)
(* and every outcome of the detector validate_and_clean, and validate_input *)
(* around it, returns a string, and whenever the detection or the removal   *)
(* fails it returns the original text.                                      *)

Validated == text_result.fn \in {"validate_input", "validate_and_clean"}

\* the characters of the validated texts
TextChars == {"a", "b", SP, TAB, CR, LF}

\* the model call, the parsing or the removal of the injection failed
SanitisationFailed ==
    \/ text_call.detector.kind /= "object"
    \/ text_call.detector.has_injection \in {"absent", "invalid"}
    \/ text_call.detector.injection_text \in {Absent, NoText}
    \/ _fuzzy_remove(text_call.content, text_call.detector.injection_text,
                     text_result.near) = NoText

C25_SanitisationNeverRaises ==
    Validated
    => /\ ~text_result.raised
       /\ text_result.value \in Seq(TextChars)
       /\ SanitisationFailed => text_result.value = text_call.content

\* the detector's model call failed on a text that is checked, and the text
\* came back unchanged
C25_Witness ==
    /\ Validated
    /\ text_call.content = LongTarget
    /\ text_call.security_guard
    /\ text_call.detector.kind = "model_error"
    /\ ~text_result.raised
    /\ text_result.value = LongTarget

----------------------------------------------------------------------------
(* C26: the first HITL read for a thread id without a config creates a      *)
(* config with every gated step (edit_material, generating_questions)       *)
(* enabled, and the read returns true; after reset_config every gated step  *)
(* of the thread is enabled; after bulk_update(b) is_enabled returns b for  *)
(* every gated step of the thread.                                          *)

\* the last step called the registry method api through the HITL endpoints
IsHitlApi(api) == last_op.op = "hitl_api" /\ last_op.api = api

\* the last step was a gated step reading the registry for an unseen thread
IsFirstRead == last_op.op \in HITLNodes /\ last_op.unseen

C26_HitlDefaultsResetAndBulk ==
    /\ IsFirstRead
          => /\ hitl_configs[last_op.thread] = HITLConfig(TRUE, TRUE)
             /\ last_op.hitl
             /\ \A n \in HITLNodes :
                   is_enabled(hitl_configs, n, last_op.thread)
    /\ IsHitlApi("reset_config")
          => \A n \in HITLNodes : is_enabled(hitl_configs, n, last_op.thread)
    /\ IsHitlApi("bulk_update")
          => \A n \in HITLNodes :
                is_enabled(hitl_configs, n, last_op.thread) = last_op.enabled

\* edit_material read the registry for a thread that had no config and
\* suspended for review
C26_Witness ==
    /\ IsFirstRead
    /\ last_op.op = "edit_material"
    /\ last_op.hitl
    /\ last_op.kind = "interrupt"
    /\ hitl_configs[last_op.thread] = HITLConfig(TRUE, TRUE)

----------------------------------------------------------------------------
(* C27: the HITL registry decides only the entry of a gated step. When a    *)
(* thread suspended inside edit_material or generating_questions is resumed *)
(* with a feedback text, the step receives the text, whatever the HITL      *)
(* setting is at the time of the resume: edit_material appends it to the    *)
(* history, generating_questions makes its revision call with it.           *)

\* the last step resumed a gated step at its suspension with a feedback text
ResumedInside ==
    /\ IsStepOp
    /\ last_op.op \in HITLNodes
    /\ last_op.pending = last_op.op
    /\ last_op.resume.given
    /\ last_op.resume.value /= ""
    /\ ~last_op.prompt_failed

\* the handler took the feedback text
FeedbackDelivered ==
    IF last_op.op = "edit_material"
    THEN /\ last_op.kind = "command"
         /\ last_op.goto = GotoNode("edit_material")
         /\ "feedback_messages" \in DOMAIN last_op.update
         /\ LET history == last_op.update.feedback_messages
            IN /\ history /= <<>>
               /\ history[Len(history)] =
                     HumanMessage(<<last_op.resume.value>>)
    ELSE last_op.model_calls = <<"QuestionsHITL">>

C27_ResumeDeliversFeedback == ResumedInside => FeedbackDelivered

\* HITL still enabled at the resume: edit_material took the feedback
C27_Witness ==
    /\ ResumedInside
    /\ last_op.op = "edit_material"
    /\ last_op.hitl
    /\ FeedbackDelivered

----------------------------------------------------------------------------
(* C28: generating_questions is entered with an empty feedback history on   *)
(* every path (edit completed, edit skipped with HITL disabled, no material *)
(* to edit, notes skipped), so with HITL enabled its first suspension       *)
(* follows a generation and shows the generated questions.                  *)

IsQuestionStep == IsStepOp /\ last_op.op = "generating_questions"

\* the message of the suspension pending in the checkpoint
PendingMessage(cp) == cp.interrupts[1].message

C28_QuestionsEnteredWithEmptyHistory ==
    IsQuestionStep
    => /\ last_op.empty_entry
       /\ (last_op.hitl /\ last_op.kind = "interrupt" /\ last_op.susp = 0)
             => PendingMessage(LastCheckpoint) =
                   <<format_initial_response(LastCheckpoint.values.questions),
                     UserPrompt>>

\* after a completed edit the step generated questions and suspended showing
\* them
C28_Witness ==
    /\ IsQuestionStep
    /\ last_op.hitl
    /\ last_op.kind = "interrupt"
    /\ last_op.susp = 0
    /\ last_op.empty_entry
    /\ LastCheckpoint.values.last_action = "complete"
    /\ PendingMessage(LastCheckpoint) =
          <<format_initial_response(LastCheckpoint.values.questions),
            UserPrompt>>

----------------------------------------------------------------------------
(* C29: when the revision decision is clarify the thread stays at           *)
(* generating_questions, the feedback history becomes the previous history  *)
(* followed by the human feedback and the formatted revision, and the next  *)
(* step of the thread is a suspension showing that revision, made without   *)
(* a model call.                                                            *)

\* op is a generating_questions step whose revision call decided clarify
IsClarify(op) ==
    /\ op.op = "generating_questions"
    /\ op.kind = "command"
    /\ op.model_calls = <<"QuestionsHITL">>
    /\ op.goto = GotoNode("generating_questions")

C29_ClarifyAppendsAndSuspends ==
    [][/\ IsClarify(last_op')
          => LET t == last_op'.thread
                 before == calls[last_op'.caller].values.feedback_messages
                 after == checkpoints'[t].values
             IN /\ checkpoints'[t].next = GotoNode("generating_questions")
                /\ after.feedback_messages =
                      before \o
                         <<HumanMessage(<<last_op'.resume.value>>),
                           AIMessage(format_initial_response(after.questions))>>
       /\ IsClarify(last_op)
          => LET cp == checkpoints'[last_op.thread]
                 history == cp.values.feedback_messages
             IN /\ last_op'.op = "generating_questions"
                /\ last_op'.thread = last_op.thread
                /\ last_op'.kind = "interrupt"
                /\ last_op'.model_calls = <<>>
                /\ history = checkpoints[last_op.thread].values.feedback_messages
                /\ PendingMessage(cp) = <<history[Len(history)].content>>
      ]_vars

\* the suspension that follows a clarify: the history ends with the human
\* feedback and the revision shown
C29_Witness ==
    /\ IsQuestionStep
    /\ last_op.kind = "interrupt"
    /\ last_op.susp >= 1
    /\ LET history == LastCheckpoint.values.feedback_messages
       IN /\ Len(history) >= 3
          /\ history[Len(history) - 1].role = "human"
          /\ history[Len(history)] =
                AIMessage(format_initial_response(
                             LastCheckpoint.values.questions))
          /\ PendingMessage(LastCheckpoint) = <<history[Len(history)].content>>

----------------------------------------------------------------------------
(* C30: every run visits the steps in the documented order input_processing, *)
(* generating_content, recognition_handwritten, synthesis_material,          *)
(* edit_material, generating_questions, answer_question, end. As the code    *)
(* runs, the order holds with one exception: when recognition_handwritten    *)
(* has no notes (nothing recognised from the images, or a reply shorter than *)
(* MIN_TEXT_LENGTH) it takes generated_material as the synthesized material  *)
(* and goes to generating_questions, past synthesis_material and             *)
(* edit_material; an empty question list ends the run without an             *)
(* answer_question task.                                                     *)

\* the step that follows a step in create_workflow's documented flow
DocumentedNext(node) ==
    CASE node = "input_processing" -> {"generating_content"}
      [] node = "generating_content" -> {"recognition_handwritten"}
      [] node = "recognition_handwritten" -> {"synthesis_material"}
      [] node = "synthesis_material" -> {"edit_material"}
      [] node = "edit_material" -> {"generating_questions"}
      [] node = "generating_questions" -> {"answer_question"}
      [] node = "answer_question" -> {}

\* the steps a handler's command sends the thread to
GotoSteps(op) == {op.goto[i].node : i \in DOMAIN op.goto}

\* the last step was a handler that returned a command
IsCommandStep == IsStepOp /\ last_op.kind = "command"

\* the command stays at its step or moves to the documented next step
InDocumentedOrder ==
    GotoSteps(last_op) \subseteq DocumentedNext(last_op.op) \cup {last_op.op}

\* recognition_handwritten went on without notes
SkippedNotes ==
    /\ last_op.op = "recognition_handwritten"
    /\ last_op.goto = GotoNode("generating_questions")
    /\ LastCheckpoint.values.recognized_notes = ""
    /\ LastCheckpoint.values.synthesized_material =
          LastCheckpoint.values.generated_material

----------------------------------------------------------------------------
(* C31: edit_count never decreases during the life of a thread. A step       *)
(* changes it only when edit_material applies an edit to                     *)
(* synthesized_material, and then by exactly 1; every other outcome of       *)
(* edit_material (edit error, message, complete, skip_hitl, no material,     *)
(* feedback intake) and every other step leaves it unchanged; a fresh run    *)
(* starts at 0. So it equals the number of edits applied.                    *)

\* the step just taken on thread t was edit_material applying an edit
AppliedEdit(op, t) ==
    /\ op.op = "edit_material"
    /\ op.thread = t
    /\ op.kind = "command"
    /\ Has(op.update, "synthesized_material")

C31_EditCountCountsAppliedEdits ==
    [][\A t \in Threads :
          /\ (checkpoints[t] /= NoCheckpoint /\ checkpoints'[t] /= NoCheckpoint)
                => checkpoints'[t].values.edit_count =
                      checkpoints[t].values.edit_count
                      + (IF checkpoints'[t] /= checkpoints[t]
                            /\ AppliedEdit(last_op', t)
                         THEN 1 ELSE 0)
          /\ (checkpoints[t] = NoCheckpoint /\ checkpoints'[t] /= NoCheckpoint)
                => checkpoints'[t].values.edit_count = 0
          /\ (AppliedEdit(last_op', t) /\ last_op' /= last_op)
                => checkpoints'[t] /= checkpoints[t]
      ]_vars

\* a second edit was applied to the document of a thread
C31_Witness ==
    /\ AppliedEdit(last_op, last_op.thread)
    /\ LastCheckpoint.values.edit_count = 2
    /\ LastCheckpoint.values.last_action = "edit"

----------------------------------------------------------------------------
(* C32: generate_prompt makes at most retry_count request attempts, sleeps   *)
(* 0.5 * 2^k seconds after the k-th failed attempt (k from 0) except after   *)
(* the last one, returns the prompt of the first successful attempt without  *)
(* further attempts, and raises WorkflowExecutionError when every attempt    *)
(* has failed.                                                               *)

\* generate_prompt has returned or raised
Prompted == text_result.fn = "generate_prompt"

\* the first attempt that succeeds, 0 when none does
FirstPrompt(outcomes) ==
    IF \E i \in DOMAIN outcomes : outcomes[i] = "prompt"
    THEN CHOOSE i \in DOMAIN outcomes :
            /\ outcomes[i] = "prompt"
            /\ \A j \in 1..(i - 1) : outcomes[j] /= "prompt"
    ELSE 0

\* the sleeps after the failed attempts 0 .. n - 1, in milliseconds
Backoff(n) == [k \in 1..n |-> retry_delay * (2 ^ (k - 1))]

C32_PromptRetriesWithBackoff ==
    Prompted =>
       LET n == text_call.retry_count
           first == FirstPrompt(text_call.outcomes)
       IN /\ text_result.attempts <= n
          /\ IF first > 0
             THEN /\ text_result.result = "prompt"
                  /\ text_result.attempts = first
                  /\ text_result.sleeps = Backoff(first - 1)
             ELSE /\ text_result.result = "WorkflowExecutionError"
                  /\ text_result.attempts = n
                  /\ text_result.sleeps = Backoff(IF n > 0 THEN n - 1 ELSE 0)

\* three attempts failed with a timeout: two sleeps, of 0.5 s and 1 s, and
\* WorkflowExecutionError
C32_Witness ==
    /\ Prompted
    /\ text_call.retry_count = 3
    /\ text_call.outcomes = <<"caught", "caught", "caught">>
    /\ text_result.result = "WorkflowExecutionError"
    /\ text_result.sleeps = <<500, 1000>>

----------------------------------------------------------------------------
(* C33: for targets of at least 10 characters the maximum edit distance of   *)
(* fuzzy_find_and_replace is at least 1, at most 100 when the normalised     *)
(* target is longer than 1000 characters, and at most 50 when it is longer   *)
(* than 100 and at most 1000 characters.                                     *)

\* the distance of a long target has been computed
Measured == text_result.fn = "max_distance"

C33_MaxDistanceIsCapped ==
    Measured =>
       LET n == Len(text_call.normalized_target)
       IN /\ text_result.value >= 1
          /\ n > 1000 => text_result.value <= 100
          /\ (n > 100 /\ n <= 1000) => text_result.value <= 50

\* a normalised target of more than 1000 characters, whose distance by the
\* threshold (150) is cut to 100
C33_Witness ==
    /\ Measured
    /\ Len(text_call.normalized_target) > 1000
    /\ text_result.value = 100

----------------------------------------------------------------------------
(* C34: fuzzy_find_and_replace with an empty target or an empty document     *)
(* returns success = false, no matched text and similarity 0; and every      *)
(* unsuccessful result, whatever the reason (no exact match for a short      *)
(* target, no approximate match, search error), returns the input document   *)
(* unchanged.                                                                *)
C34_FailureLeavesDocument ==
    EditReturned =>
       /\ (text_call.target = <<>> \/ text_call.document = <<>>)
             => /\ ~text_result.success
                /\ text_result.found_text = NoText
                /\ text_result.similarity = 0
       /\ ~text_result.success
             => text_result.new_document = text_call.document

\* a search error for a target of ten characters in a document with blanks
\* that normalisation would change
C34_Witness ==
    /\ EditReturned
    /\ text_result.near.error
    /\ ~text_result.success
    /\ _normalize_text(text_call.document) /= text_call.document
    /\ text_result.new_document = text_call.document

----------------------------------------------------------------------------
(* C35: update_node_setting(T, step, enabled) changes only the flag of that  *)
(* step in thread T's config: every other flag of T reads as before, the     *)
(* entry of every other thread id is untouched, and when the step is not a   *)
(* gate-able step no flag of any thread changes.                             *)

\* the request just served was update_node_setting
IsNodeSetting(op) == op.op = "hitl_api" /\ op.api = "update_node_setting"

C35_NodeSettingChangesOneFlag ==
    [][IsNodeSetting(last_op') =>
          \A u \in Threads :
             /\ u /= last_op'.thread => hitl_configs'[u] = hitl_configs[u]
             /\ \A n \in HITLNodes :
                   is_enabled(hitl_configs', n, u) =
                      IF u = last_op'.thread /\ n = last_op'.node
                      THEN last_op'.enabled
                      ELSE is_enabled(hitl_configs, n, u)
      ]_vars

\* edit_material was disabled for one thread whose generating_questions flag
\* stays enabled, while the other thread has a different config
C35_Witness ==
    /\ IsNodeSetting(last_op)
    /\ last_op.node = "edit_material"
    /\ ~last_op.enabled
    /\ \E u \in Threads \ {last_op.thread} :
          /\ hitl_configs[u] /= NoConfig
          /\ hitl_configs[u] /= hitl_configs[last_op.thread]
    /\ is_enabled(hitl_configs, "generating_questions", last_op.thread)

----------------------------------------------------------------------------
(* C36: an artifact URL is registered in a thread's pending_urls only if the *)
(* artifact store reported that the document was persisted: a step whose     *)
(* write of recognized notes, synthesized material, questions or answers     *)
(* failed registers no URL.                                                  *)

\* the URLs pending for a thread, by artifact type
PendingUrls(ad, t) == IF ad[t] = NoData THEN EmptyMap ELSE ad[t].pending_urls

\* the artifact types whose URL was registered or replaced by a step
Registered(before, after) ==
    {a \in DOMAIN after : a \notin DOMAIN before \/ after[a] /= before[a]}

C36_UrlOnlyForPersistedArtifact ==
    [][\A t \in Threads :
          Registered(PendingUrls(artifacts_data, t),
                     PendingUrls(artifacts_data', t)) /= {}
             => /\ last_op'.op \in Nodes
                /\ last_op'.thread = t
                /\ last_op'.pushes
                /\ ~last_op'.persist_failed
      ]_vars

\* the recognized notes were persisted and their URL is pending
C36_Witness ==
    /\ IsStepOp
    /\ last_op.op = "recognition_handwritten"
    /\ last_op.pushes
    /\ ~last_op.persist_failed
    /\ "recognized_notes" \in DOMAIN PendingUrls(artifacts_data, last_op.thread)

----------------------------------------------------------------------------
(* C37: with HITL enabled edit_material cannot go on without the user: for   *)
(* every sequence of model decisions the number of model-driven actions      *)
(* taken in a row, without a suspension for user input or the hand-off to    *)
(* generating_questions, is limited by the step itself. Within the bounds of *)
(* the model: the actions taken in a row never come to MaxEdits, the number  *)
(* of edits one document takes.                                              *)

\* the step just taken was a model-driven action of edit_material that
\* returns to edit_material without asking for user input
ContinuedEditing ==
    /\ IsStepOp
    /\ last_op.op = "edit_material"
    /\ last_op.hitl
    /\ last_op.kind = "command"
    /\ last_op.goto = GotoNode("edit_material")
    /\ MadeDecision(last_op)
    /\ ~LastCheckpoint.values.needs_user_input

C37_EditingReturnsToTheUser ==
    ContinuedEditing => visits[last_op.thread].streak < MaxEdits

\* one model-driven edit was applied with continue_editing and the step was
\* entered again without a suspension
C37_Witness ==
    /\ ContinuedEditing
    /\ visits[last_op.thread].streak = 1
    /\ LastCheckpoint.values.edit_count = 1

----------------------------------------------------------------------------
(* C38: when HITL was disabled for all nodes of a thread (bulk_update with   *)
(* enable_all = false) before the run starts, the call that begins the run   *)
(* never suspends it and ends with the completed result, with or without     *)
(* images.                                                                   *)

\* HITL is disabled for every node of thread t
AllDisabled(t) == hitl_configs[t] = HITLConfig(FALSE, FALSE)

\* the last operation belongs to the call that began the run of its thread
\* with HITL disabled for all nodes
BeganAutonomous ==
    /\ last_op.op \in Nodes \cup {"finalize"}
    /\ last_op.began
    /\ AllDisabled(last_op.thread)

C38_AutonomousRunCompletes ==
    BeganAutonomous =>
       /\ IsStepOp => last_op.kind /= "interrupt"
       /\ last_op.op = "finalize"
             => results[last_op.thread].kind = "completed"

\* a run with an image, begun with HITL disabled, completed in its first call
C38_Witness ==
    /\ BeganAutonomous
    /\ last_op.op = "finalize"
    /\ results[last_op.thread].kind = "completed"

----------------------------------------------------------------------------
(* C39: whenever the detector reports an injection span that occurs in the   *)
(* text (exactly for a span shorter than 10 characters, within the distance  *)
(* bound otherwise), validate_and_clean returns the text with the first      *)
(* matching occurrence removed (trimmed or not) and never the input text     *)
(* unchanged, also when the span is the whole text.                          *)

\* validate_and_clean has returned for a reported span
Cleaned ==
    /\ text_result.fn = "validate_and_clean"
    /\ RemovesInjection(text_call.content, text_call.detector)

\* where the reported span occurs in the text: start and end of the first
\* match, <<-1, -1>> when there is none
SpanFound ==
    LET span == text_call.detector.injection_text
        at == find(text_call.content, span)
    IN IF Len(span) < 10
       THEN IF at >= 0 THEN <<at, at + Len(span)>> ELSE <<-1, -1>>
       ELSE IF text_result.near.error \/ text_result.near.matches = <<>>
            THEN <<-1, -1>>
            ELSE <<text_result.near.matches[1].start,
                   text_result.near.matches[1].end>>

\* the text without the span found
WithoutSpan ==
    Slice(text_call.content, 0, SpanFound[1])
       \o Slice(text_call.content, SpanFound[2], Len(text_call.content))

C39_ReportedInjectionIsRemoved ==
    (Cleaned /\ SpanFound[1] >= 0)
    => /\ ~text_result.raised
       /\ text_result.value \in {WithoutSpan, strip(WithoutSpan)}
       /\ text_result.value /= text_call.content

\* a span of ten characters was removed from a longer text
C39_Witness ==
    /\ Cleaned
    /\ SpanFound[1] >= 0
    /\ text_call.detector.injection_text = LongTarget
    /\ text_call.content /= LongTarget
    /\ text_result.value = strip(WithoutSpan)
    /\ text_result.value /= text_call.content

----------------------------------------------------------------------------
(* C40: after any interleaving of concurrent get_system_prompt calls on the  *)
(* shared question node, once all calls have returned get_node_name()        *)
(* returns "generating_questions" again; and while a call is waiting for     *)
(* its prompt, the prompt was requested under "generating_questions" for the *)
(* initial variant and under "generating_questions_further" for the further  *)
(* variant.                                                                  *)

\* no get_system_prompt call of any thread is waiting for its prompt
AllPromptsReturned == \A t \in Threads : node_task[t].pc /= "render_prompt"

C40_NodeNameRestored ==
    /\ AllPromptsReturned => get_node_name = NodeName
    /\ \A t \in Threads :
          node_task[t].pc = "render_prompt"
             => node_task[t].requested =
                   get_system_prompt_name(NodeName, node_task[t].variant)

\* two calls overlapped, the first for the further variant, and both have
\* returned
C40_Witness ==
    /\ AllPromptsReturned
    /\ \A t \in Threads : node_task[t].pc = "ainvoke"
    /\ \E t \in Threads : node_task[t].variant = "further"
    /\ \E t \in Threads :
          node_task[t].original_get_node_name /= NodeName

====
